---- MODULE Spec2Model ----
(***************************************************************************)
(* Knowledge-base tools of atlas_gtm_mcp/qdrant/__init__.py: the brain     *)
(* lifecycle (create_brain, update_brain_status, delete_brain), content    *)
(* seeding (_seed_items_to_collection) and add_insight, over a vector      *)
(* store of named collections keyed by point id.                           *)
(*                                                                         *)
(* Every tool call is a process.  One action is one external call (a store *)
(* read, a store write, an embedding request) together with the local code *)
(* that follows it up to the next external call; every external call may   *)
(* fail.  Timestamps (created_at, updated_at) are not modelled.            *)
(***************************************************************************)
EXTENDS Integers, Sequences, FiniteSets, TLC

VARIABLES
    brains,     \* collection "brains": point id -> payload
    content,    \* the five content collections: name -> (point id -> point)
    calls,      \* the tool calls in flight, one slot per process
    pre,        \* per slot: the store as it was when the slot's call arrived
    ncalls,     \* number of calls that have arrived
    attio,      \* the Attio workspace: pipeline entries and list schemas
    list_status_cache,  \* attio: _list_status_cache, list id -> status mapping
    verticals,  \* collection "verticals": the scroll result, in scroll order
    tools       \* the attio, heyreach and verticals calls in flight, per slot

\* the state outside the knowledge-base store
ext == <<attio, list_status_cache, verticals, tools>>

vars == <<brains, content, calls, pre, ncalls, attio, list_status_cache, verticals, tools>>

Procs == {1, 2}

\* ------------------------------------------------------------------------
\* Bounds of the model
\* ------------------------------------------------------------------------
MaxCalls == 2       \* calls per behaviour in the bounded specifications
MaxStageCalls == 6  \* update_pipeline_stage calls in a row on one record
MaxPermuted == 3    \* result sets up to this size are returned in every order
MaxItems == 2       \* length of the short item lists given to a seed call
MaxCountFailures == 1   \* count queries that fail within one read call

\* ------------------------------------------------------------------------
\* Values
\* ------------------------------------------------------------------------
Verticals == {"fintech", "health"}

BrainIds == {"brain_fintech_1", "brain_fintech_2", "brain_health_1"}

VerticalOf(b) == IF b = "brain_health_1" THEN "health" ELSE "fintech"

\* A string that validate_brain_id refuses.
InvalidBrainId == "nobrain"

BrainStatus == {"draft", "active", "archived"}

ContentCollections ==
    <<"icp_rules", "response_templates", "objection_handlers",
      "market_research", "insights">>

CollectionNames == {ContentCollections[i] : i \in 1..Len(ContentCollections)}

NoData == [id |-> "", vertical |-> "", status |-> ""]

ZeroCounts == [c \in CollectionNames |-> 0]

\* models.validate_brain_id
validate_brain_id(brain_id) == brain_id \in BrainIds

\* models.VALID_TRANSITIONS
VALID_TRANSITIONS ==
    [draft |-> {"active"}, active |-> {"archived"}, archived |-> {"active"}]

\* models.validate_status_transition
validate_status_transition(current, new) == new \in VALID_TRANSITIONS[current]

\* models.generate_point_id: a pure function of (brain_id, key)
generate_point_id(brain_id, key) == <<brain_id, key>>

\* the id generated for the vertical that ends in a line feed
NewlineBrainId == "brain_fintech\n_1"

\* models.generate_brain_id: an id derived from the vertical and globally
\* unique: one of the vertical's ids that no stored brain has
generate_brain_id(vertical) ==
    {b \in (IF vertical \in Verticals THEN {x \in BrainIds : VerticalOf(x) = vertical}
            ELSE {NewlineBrainId}) :
        \A pt \in DOMAIN brains : brains[pt].id # b}

\* ------------------------------------------------------------------------
\* The vector store
\* ------------------------------------------------------------------------
\* qdrant.scroll(limit): at most `limit` of the matching points
ScrollResults(matching, limit) ==
    IF Cardinality(matching) <= limit
    THEN {matching}
    ELSE {S \in SUBSET matching : Cardinality(S) = limit}

\* one order of a result set
RECURSIVE SomeOrder(_)
SomeOrder(S) ==
    IF S = {} THEN <<>>
    ELSE LET x == CHOOSE x \in S : TRUE IN <<x>> \o SomeOrder(S \ {x})

\* the orders in which a result set can be returned: every order of a set of
\* at most MaxPermuted points, one order of a larger set
Orders(S) ==
    IF Cardinality(S) <= MaxPermuted
    THEN {f \in [1..Cardinality(S) -> S] : \A i, j \in DOMAIN f : i # j => f[i] # f[j]}
    ELSE {SomeOrder(S)}

\* qdrant.upsert of one point
Upsert(coll, id, point) ==
    [x \in (DOMAIN coll) \cup {id} |-> IF x = id THEN point ELSE coll[x]]

\* qdrant.delete(points_selector = ids)
DeletePoints(coll, ids) == [x \in (DOMAIN coll) \ ids |-> coll[x]]

\* Filter(must = [id = brain_id]) on "brains"
BrainPointsById(brain_id) == {pt \in DOMAIN brains : brains[pt].id = brain_id}

\* Filter(must = [vertical = v, status = active]) on "brains"
ActiveBrainPoints(vertical) ==
    {pt \in DOMAIN brains :
        brains[pt].vertical = vertical /\ brains[pt].status = "active"}

\* Filter(must = [brain_id = b]) on a content collection
PointsOfBrain(c, brain_id) ==
    {pt \in DOMAIN content[c] : content[c][pt].payload.brain_id = brain_id}

\* ------------------------------------------------------------------------
\* Tool calls
\* ------------------------------------------------------------------------
\* source = None
NoSource == [given |-> FALSE, type |-> "", id |-> ""]

\* no quality gate result yet
NoGate ==
    [ran |-> FALSE, passed |-> FALSE, is_duplicate |-> FALSE, duplicate_id |-> <<>>,
     similarity_score |-> 0, rejection_reason |-> "", confidence_score |-> 0,
     requires_validation |-> FALSE]

NoResult ==
    [status |-> "", error |-> "", from |-> "", to |-> "", targets |-> {},
     brain_id |-> "", previous_status |-> "", new_status |-> "",
     deactivated_brain_id |-> "", deleted_content |-> ZeroCounts,
     collection |-> "", seeded_count |-> 0, errors |-> <<>>, message |-> "",
     existing_id |-> <<>>, id |-> <<>>, reason |-> "", confidence |-> 0,
     needs_validation |-> FALSE,
     found |-> FALSE, brains |-> <<>>, completeness |-> 0]

IdleCall ==
    [op |-> "none", pc |-> "idle",
     brain_id |-> "", status |-> "", confirm |-> FALSE,
     vertical |-> "", name_len |-> 0, description_len |-> 0,
     brain_data |-> NoData, siblings |-> <<>>, deactivated |-> "",
     i |-> 0, point_ids |-> {}, deleted_counts |-> ZeroCounts,
     tool |-> "", items |-> <<>>, all_embeddings |-> <<>>, provider_failed |-> FALSE,
     content |-> "", category |-> "", importance |-> "", source |-> NoSource,
     gate |-> NoGate,
     results |-> <<>>, idx |-> 0, stats |-> ZeroCounts, failed |-> {}, output |-> <<>>,
     nRead |-> 0, nWrite |-> 0, nEmbed |-> 0,
     res |-> NoResult]

Fail(c, kind) ==
    [c EXCEPT !.pc = "done", !.res = [NoResult EXCEPT !.status = "error", !.error = kind]]

\* A call arrives at a free slot.
Arrive(p) ==
    /\ calls[p].pc = "idle"
    /\ ncalls < MaxCalls
    /\ ncalls' = ncalls + 1
    /\ pre' = [pre EXCEPT ![p] = [brains |-> brains, content |-> content]]

\* The caller takes the result; the slot is free again.
Return(p) ==
    /\ calls[p].pc = "done"
    /\ calls' = [calls EXCEPT ![p] = IdleCall]
    /\ UNCHANGED <<brains, content, pre, ncalls, ext>>

\* _validate_brain_exists: the scroll of "brains" by payload id, limit 1.
\* The set of payloads the call can return; empty when no point matches.
validate_brain_exists(brain_id) ==
    {brains[pt] : pt \in UNION ScrollResults(BrainPointsById(brain_id), 1)}

\* ------------------------------------------------------------------------
\* update_brain_status
\* ------------------------------------------------------------------------
\* mutant: a request for the status the brain already has is let through
TransitionRejected_SameStatusAllowed(current_status, new_status) ==
    ~validate_status_transition(current_status, new_status) /\ current_status # new_status

\* the transition check of update_brain_status
TransitionRejected(current_status, new_status) ==
    ~validate_status_transition(current_status, new_status)

\* mutant: the cascade loop archives nothing
SiblingsToArchive_None(results, brain_id) == {}

\* the payloads of the scroll result that the cascade loop archives
SiblingsToArchive(results, brain_id) ==
    {pl \in results : pl.id # "" /\ pl.id # brain_id}

\* the status written for a cascaded sibling
SiblingStatus == "archived"

\* mutant: the archived sibling is not recorded for the result
DeactivatedBrainId_Kept(deactivated_brain_id, other_brain_id) == deactivated_brain_id

\* deactivated_brain_id = other_brain_id, after the sibling's upsert
DeactivatedBrainId(deactivated_brain_id, other_brain_id) == other_brain_id

\* after the cascade loop has handled sibling i: next sibling or the target
AfterSibling(c, n) ==
    IF n < Len(c.siblings)
    THEN [c EXCEPT !.pc = "u_embed_other", !.i = n + 1]
    ELSE [c EXCEPT !.pc = "u_embed_target", !.i = 0]

update_brain_status(p, brain_id, status) ==
    /\ Arrive(p)
    /\ LET c == [IdleCall EXCEPT !.op = "update", !.brain_id = brain_id,
                                 !.status = status]
       IN calls' = [calls EXCEPT ![p] =
            IF ~validate_brain_id(brain_id) THEN Fail(c, "invalid_brain_id")
            ELSE IF status \notin BrainStatus THEN Fail(c, "invalid_status")
            ELSE [c EXCEPT !.pc = "u_get"]]
    /\ UNCHANGED <<brains, content, ext>>

\* brain_data = await _validate_brain_exists(brain_id); transition check
update_get(p, ok) ==
    /\ calls[p].pc = "u_get"
    /\ LET c == [calls[p] EXCEPT !.nRead = @ + 1]
           found == validate_brain_exists(c.brain_id)
       IN IF ~ok THEN calls' = [calls EXCEPT ![p] = Fail(c, "store_error")]
          ELSE IF found = {} THEN calls' = [calls EXCEPT ![p] = Fail(c, "not_found")]
          ELSE \E brain_data \in found :
                 calls' = [calls EXCEPT ![p] =
                    IF TransitionRejected(brain_data.status, c.status)
                    THEN [c EXCEPT !.pc = "done",
                            !.res = [NoResult EXCEPT
                                !.status = "error", !.error = "invalid_transition",
                                !.from = brain_data.status, !.to = c.status,
                                !.targets = VALID_TRANSITIONS[brain_data.status]]]
                    ELSE [c EXCEPT !.brain_data = brain_data,
                            !.vertical = brain_data.vertical,
                            !.pc = IF c.status = "active" THEN "u_scroll"
                                   ELSE "u_embed_target"]]
    /\ UNCHANGED <<brains, content, pre, ncalls, ext>>

\* the scroll for the active brains of the vertical (limit 10)
update_scroll(p, ok) ==
    /\ calls[p].pc = "u_scroll"
    /\ LET c == [calls[p] EXCEPT !.nRead = @ + 1]
       IN IF ~ok THEN calls' = [calls EXCEPT ![p] = Fail(c, "store_error")]
          ELSE \E pts \in ScrollResults(ActiveBrainPoints(c.vertical), 10) :
               \E order \in Orders(SiblingsToArchive({brains[pt] : pt \in pts}, c.brain_id)) :
                 calls' = [calls EXCEPT ![p] = AfterSibling([c EXCEPT !.siblings = order], 0)]
    /\ UNCHANGED <<brains, content, pre, ncalls, ext>>

\* other_vector = embed_document(...) for sibling i
update_embed_other(p, ok) ==
    /\ calls[p].pc = "u_embed_other"
    /\ LET c == [calls[p] EXCEPT !.nEmbed = @ + 1]
       IN calls' = [calls EXCEPT ![p] =
            IF ~ok THEN Fail(c, "store_error") ELSE [c EXCEPT !.pc = "u_upsert_other"]]
    /\ UNCHANGED <<brains, content, pre, ncalls, ext>>

\* qdrant.upsert of sibling i with status archived
update_upsert_other(p, ok) ==
    /\ calls[p].pc = "u_upsert_other"
    /\ LET c == [calls[p] EXCEPT !.nWrite = @ + 1]
           other == c.siblings[c.i]
       IN IF ~ok
          THEN /\ calls' = [calls EXCEPT ![p] = Fail(c, "store_error")]
               /\ UNCHANGED brains
          ELSE /\ brains' = Upsert(brains, generate_point_id(other.id, other.id),
                                   [other EXCEPT !.status = SiblingStatus])
               /\ calls' = [calls EXCEPT ![p] =
                                AfterSibling([c EXCEPT !.deactivated =
                                    DeactivatedBrainId(c.deactivated, other.id)], c.i)]
    /\ UNCHANGED <<content, pre, ncalls, ext>>

\* brain_vector = embed_document(...) for the target
update_embed_target(p, ok) ==
    /\ calls[p].pc = "u_embed_target"
    /\ LET c == [calls[p] EXCEPT !.nEmbed = @ + 1]
       IN calls' = [calls EXCEPT ![p] =
            IF ~ok THEN Fail(c, "store_error") ELSE [c EXCEPT !.pc = "u_upsert_target"]]
    /\ UNCHANGED <<brains, content, pre, ncalls, ext>>

\* qdrant.upsert of the target with the new status; the result
update_upsert_target(p, ok) ==
    /\ calls[p].pc = "u_upsert_target"
    /\ LET c == [calls[p] EXCEPT !.nWrite = @ + 1]
       IN IF ~ok
          THEN /\ calls' = [calls EXCEPT ![p] = Fail(c, "store_error")]
               /\ UNCHANGED brains
          ELSE /\ brains' = Upsert(brains, generate_point_id(c.brain_id, c.brain_id),
                                   [c.brain_data EXCEPT !.status = c.status])
               /\ calls' = [calls EXCEPT ![p] = [c EXCEPT !.pc = "done",
                    !.res = [NoResult EXCEPT
                        !.status = "ok", !.brain_id = c.brain_id,
                        !.previous_status = c.brain_data.status,
                        !.new_status = c.status,
                        !.deactivated_brain_id = c.deactivated]]]
    /\ UNCHANGED <<content, pre, ncalls, ext>>

\* ------------------------------------------------------------------------
\* create_brain
\* ------------------------------------------------------------------------
\* Inputs: verticals as strings with their characters by class, and the
\* lengths of name and description.
InvalidVertical == "Fintech!"

\* one lowercase letter: matches the pattern, too short
ShortVertical == "f"

\* 51 lowercase letters: matches the pattern, too long
LongVertical == "f51"

\* a slug followed by a line feed
NewlineVertical == "fintech\n"

\* the characters of a vertical, each by its class
Chars(vertical) ==
    LET lower(n) == [j \in 1..n |-> "lower"]
    IN IF vertical = "fintech" THEN lower(7)
       ELSE IF vertical = "health" THEN lower(6)
       ELSE IF vertical = ShortVertical THEN lower(1)
       ELSE IF vertical = LongVertical THEN lower(51)
       ELSE IF vertical = NewlineVertical THEN lower(7) \o <<"newline">>
       ELSE <<"upper">> \o lower(6) \o <<"other">>

\* re.match(r"^[a-z][a-z0-9_-]*$", vertical): $ matches at the end of the
\* string and also just before a line feed that ends the string
re_match_slug(chars) ==
    /\ Len(chars) >= 1
    /\ chars[1] = "lower"
    /\ \E end \in {Len(chars)} \cup
                    (IF chars[Len(chars)] = "newline" THEN {Len(chars) - 1} ELSE {}) :
            /\ end >= 1
            /\ \A j \in 2..end : chars[j] \in {"lower", "digit", "dash", "underscore"}

VerticalOK(vertical) == re_match_slug(Chars(vertical))

\* len(vertical) < 2 or len(vertical) > 50
VerticalLenOK(vertical) == Len(Chars(vertical)) >= 2 /\ Len(Chars(vertical)) <= 50

\* the verticals given to create_brain
CreateVerticals ==
    Verticals \cup {InvalidVertical, ShortVertical, LongVertical, NewlineVertical}

NameOK(n) == n >= 3 /\ n <= 100

DescriptionOK(n) == n >= 10 /\ n <= 500

\* the status create_brain writes
CreatedStatus == "draft"

create_brain(p, vertical, name_len, description_len) ==
    /\ Arrive(p)
    /\ LET c == [IdleCall EXCEPT !.op = "create", !.vertical = vertical,
                    !.name_len = name_len, !.description_len = description_len]
       IN IF ~VerticalOK(vertical) THEN calls' = [calls EXCEPT ![p] = Fail(c, "invalid_vertical")]
          ELSE IF ~VerticalLenOK(vertical)
               THEN calls' = [calls EXCEPT ![p] = Fail(c, "invalid_vertical_length")]
          ELSE IF ~NameOK(name_len) THEN calls' = [calls EXCEPT ![p] = Fail(c, "invalid_name")]
          ELSE IF ~DescriptionOK(description_len)
               THEN calls' = [calls EXCEPT ![p] = Fail(c, "invalid_description")]
          ELSE \E brain_id \in generate_brain_id(vertical) :
                 calls' = [calls EXCEPT ![p] =
                            [c EXCEPT !.brain_id = brain_id, !.pc = "c_embed"]]
    /\ UNCHANGED <<brains, content, ext>>

\* brain_vector = embed_document(...)
create_embed(p, ok) ==
    /\ calls[p].pc = "c_embed"
    /\ LET c == [calls[p] EXCEPT !.nEmbed = @ + 1]
       IN calls' = [calls EXCEPT ![p] =
            IF ~ok THEN Fail(c, "store_error") ELSE [c EXCEPT !.pc = "c_upsert"]]
    /\ UNCHANGED <<brains, content, pre, ncalls, ext>>

\* qdrant.upsert of the new brain record
create_upsert(p, ok) ==
    /\ calls[p].pc = "c_upsert"
    /\ LET c == [calls[p] EXCEPT !.nWrite = @ + 1]
       IN IF ~ok
          THEN /\ calls' = [calls EXCEPT ![p] = Fail(c, "store_error")]
               /\ UNCHANGED brains
          ELSE /\ brains' = Upsert(brains, generate_point_id(c.brain_id, c.brain_id),
                                   [id |-> c.brain_id, vertical |-> c.vertical,
                                    status |-> CreatedStatus])
               /\ calls' = [calls EXCEPT ![p] = [c EXCEPT !.pc = "done",
                    !.res = [NoResult EXCEPT !.status = "ok", !.brain_id = c.brain_id,
                                             !.new_status = CreatedStatus]]]
    /\ UNCHANGED <<content, pre, ncalls, ext>>

\* ------------------------------------------------------------------------
\* delete_brain
\* ------------------------------------------------------------------------
\* mutant: the confirmation flag is ignored
ConfirmMissing_Ignored(confirm) == FALSE

\* the confirmation check, first statement of delete_brain
ConfirmMissing(confirm) == ~confirm

\* the status check that protects active brains
DeleteRefused(status) == status = "active"

\* the cascade moves on: next content collection, or the brain record
NextCollection(c) ==
    IF c.i < Len(ContentCollections)
    THEN [c EXCEPT !.pc = "d_scroll", !.i = @ + 1, !.point_ids = {}]
    ELSE [c EXCEPT !.pc = "d_scroll_brain", !.i = 0, !.point_ids = {}]

\* deleted_counts[display_name] = 0 in the except branch of the cascade loop
CountAfterFailure(count) == 0

delete_brain(p, brain_id, confirm) ==
    /\ Arrive(p)
    /\ LET c == [IdleCall EXCEPT !.op = "delete", !.brain_id = brain_id,
                                 !.confirm = confirm]
       IN calls' = [calls EXCEPT ![p] =
            IF ConfirmMissing(confirm) THEN Fail(c, "confirm_required")
            ELSE IF ~validate_brain_id(brain_id) THEN Fail(c, "invalid_brain_id")
            ELSE [c EXCEPT !.pc = "d_get"]]
    /\ UNCHANGED <<brains, content, ext>>

\* brain_data = await _validate_brain_exists(brain_id); the active check
delete_get(p, ok) ==
    /\ calls[p].pc = "d_get"
    /\ LET c == [calls[p] EXCEPT !.nRead = @ + 1]
           found == validate_brain_exists(c.brain_id)
       IN IF ~ok THEN calls' = [calls EXCEPT ![p] = Fail(c, "store_error")]
          ELSE IF found = {} THEN calls' = [calls EXCEPT ![p] = Fail(c, "not_found")]
          ELSE \E brain_data \in found :
                 calls' = [calls EXCEPT ![p] =
                    IF DeleteRefused(brain_data.status) THEN Fail(c, "active_brain")
                    ELSE NextCollection([c EXCEPT !.brain_data = brain_data, !.i = 0])]
    /\ UNCHANGED <<brains, content, pre, ncalls, ext>>

\* the scroll of content collection i for the brain's points (limit 10000)
delete_scroll(p, ok) ==
    /\ calls[p].pc = "d_scroll"
    /\ LET c == [calls[p] EXCEPT !.nRead = @ + 1]
           name == ContentCollections[c.i]
       IN IF ~ok
          THEN calls' = [calls EXCEPT ![p] = NextCollection(
                    [c EXCEPT !.deleted_counts[name] = CountAfterFailure(0)])]
          ELSE \E results \in ScrollResults(PointsOfBrain(name, c.brain_id), 10000) :
                 LET count == Cardinality(results)
                     d == [c EXCEPT !.deleted_counts[name] = count]
                 IN calls' = [calls EXCEPT ![p] =
                        IF count > 0
                        THEN [d EXCEPT !.pc = "d_delete", !.point_ids = results]
                        ELSE NextCollection(d)]
    /\ UNCHANGED <<brains, content, pre, ncalls, ext>>

\* qdrant.delete of the scrolled points of collection i
delete_points(p, ok) ==
    /\ calls[p].pc = "d_delete"
    /\ LET c == [calls[p] EXCEPT !.nWrite = @ + 1]
           name == ContentCollections[c.i]
       IN IF ~ok
          THEN /\ calls' = [calls EXCEPT ![p] = NextCollection(
                    [c EXCEPT !.deleted_counts[name] =
                                    CountAfterFailure(Cardinality(c.point_ids))])]
               /\ UNCHANGED content
          ELSE /\ content' = [content EXCEPT ![name] = DeletePoints(@, c.point_ids)]
               /\ calls' = [calls EXCEPT ![p] = NextCollection(c)]
    /\ UNCHANGED <<brains, pre, ncalls, ext>>

DeleteDone(c) ==
    [c EXCEPT !.pc = "done",
        !.res = [NoResult EXCEPT !.status = "ok", !.brain_id = c.brain_id,
                                 !.deleted_content = c.deleted_counts]]

\* the scroll of "brains" for the record's actual point id (limit 1)
delete_scroll_brain(p, ok) ==
    /\ calls[p].pc = "d_scroll_brain"
    /\ LET c == [calls[p] EXCEPT !.nRead = @ + 1]
       IN IF ~ok THEN calls' = [calls EXCEPT ![p] = Fail(c, "delete_record_failed")]
          ELSE \E brain_results \in ScrollResults(BrainPointsById(c.brain_id), 1) :
                 calls' = [calls EXCEPT ![p] =
                    IF brain_results # {}
                    THEN [c EXCEPT !.pc = "d_delete_brain", !.point_ids = brain_results]
                    ELSE DeleteDone(c)]
    /\ UNCHANGED <<brains, content, pre, ncalls, ext>>

\* qdrant.delete of the brain record
delete_record(p, ok) ==
    /\ calls[p].pc = "d_delete_brain"
    /\ LET c == [calls[p] EXCEPT !.nWrite = @ + 1]
       IN IF ~ok
          THEN /\ calls' = [calls EXCEPT ![p] = Fail(c, "delete_record_failed")]
               /\ UNCHANGED brains
          ELSE /\ brains' = DeletePoints(brains, c.point_ids)
               /\ calls' = [calls EXCEPT ![p] = DeleteDone([c EXCEPT !.point_ids = {}])]
    /\ UNCHANGED <<content, pre, ncalls, ext>>

\* ------------------------------------------------------------------------
\* _seed_items_to_collection and the four seed tools
\* ------------------------------------------------------------------------
\* the batch size of the embedding loop
EMBED_BATCH_SIZE == 100

\* the (collection, embed_field, key_field) each seed tool passes
SeedTools ==
    [seed_icp_rules |-> [collection |-> "icp_rules", embed_field |-> "criteria",
                         key_field |-> "name"],
     seed_templates |-> [collection |-> "response_templates",
                         embed_field |-> "template_text", key_field |-> "name"],
     seed_handlers  |-> [collection |-> "objection_handlers",
                         embed_field |-> "objection_text", key_field |-> "objection_text"],
     seed_research  |-> [collection |-> "market_research", embed_field |-> "content",
                         key_field |-> "topic"]]

SeedToolNames == DOMAIN SeedTools

\* item.get(field): "" stands for a field that is absent or empty
Get(item, field) == IF field \in DOMAIN item THEN item[field] ELSE ""

\* embeddings.embed_batch: one vector per text, in order
embed_batch(batch) == [j \in 1..Len(batch) |-> <<"vec", batch[j]>>]

\* mutant: the key field is checked before the embed field
ItemError_KeyFirst(item, embed_field, key_field) ==
    IF Get(item, key_field) = "" THEN key_field
    ELSE IF Get(item, embed_field) = "" THEN embed_field
    ELSE ""

\* the per-item validation: the field the error names, "" for a valid item
ItemError(item, embed_field, key_field) ==
    IF Get(item, embed_field) = "" THEN embed_field
    ELSE IF Get(item, key_field) = "" THEN key_field
    ELSE ""

\* item_name: name, else topic, else objection_text, else item_<idx>
ItemName(item, idx) ==
    IF "name" \in DOMAIN item /\ item["name"] # "" THEN <<"value", item["name"]>>
    ELSE IF "topic" \in DOMAIN item /\ item["topic"] # "" THEN <<"value", item["topic"]>>
    ELSE IF "objection_text" \in DOMAIN item /\ item["objection_text"] # ""
         THEN <<"value", item["objection_text"]>>
    ELSE <<"item", idx>>

\* the validation loop over items[lo..hi]: the SeedingError list (0-based index)
RECURSIVE SeedErrorsIn(_, _, _, _)
SeedErrorsIn(items, t, lo, hi) ==
    IF lo > hi THEN <<>>
    ELSE IF lo = hi
    THEN LET e == ItemError(items[lo], t.embed_field, t.key_field)
         IN IF e = "" THEN <<>>
            ELSE <<[index |-> lo - 1, name |-> ItemName(items[lo], lo - 1), error |-> e]>>
    ELSE LET mid == (lo + hi) \div 2
         IN SeedErrorsIn(items, t, lo, mid) \o SeedErrorsIn(items, t, mid + 1, hi)

SeedErrors(items, t, n) == SeedErrorsIn(items, t, 1, n)

\* the validation loop over items[lo..hi]: valid_items, as positions in items
RECURSIVE ValidItemsIn(_, _, _, _)
ValidItemsIn(items, t, lo, hi) ==
    IF lo > hi THEN <<>>
    ELSE IF lo = hi
    THEN IF ItemError(items[lo], t.embed_field, t.key_field) = "" THEN <<lo>> ELSE <<>>
    ELSE LET mid == (lo + hi) \div 2
         IN ValidItemsIn(items, t, lo, mid) \o ValidItemsIn(items, t, mid + 1, hi)

ValidItems(items, t, n) == ValidItemsIn(items, t, 1, n)

\* texts_to_embed
TextsToEmbed(items, t) ==
    LET v == ValidItems(items, t, Len(items))
    IN [j \in 1..Len(v) |-> Get(items[v[j]], t.embed_field)]

\* the chunk the loop sends after `done` texts have been embedded
Chunk(texts, done) ==
    SubSeq(texts, done + 1,
           IF done + EMBED_BATCH_SIZE < Len(texts) THEN done + EMBED_BATCH_SIZE ELSE Len(texts))

\* the payload of a seeded point: {"brain_id": brain_id, **item, ...}
SeedPayload(brain_id, item) ==
    [brain_id |-> IF Get(item, "brain_id") # "" THEN Get(item, "brain_id") ELSE brain_id,
     item |-> item]

\* qdrant.upsert(points): the points are applied in list order, so of two
\* points with one id the later one is stored
UpsertAll(coll, points) ==
    LET ids == {points[j].id : j \in 1..Len(points)}
        last(id) == CHOOSE j \in 1..Len(points) :
                        /\ points[j].id = id
                        /\ \A k \in (j + 1)..Len(points) : points[k].id # id
    IN [x \in (DOMAIN coll) \cup ids |->
          IF x \in ids THEN points[last(x)].point ELSE coll[x]]

\* mutant: the embeddings are taken from the end of the list
SeedPoints_Reversed(brain_id, items, t, embeddings) ==
    LET v == ValidItems(items, t, Len(items))
    IN [j \in 1..Len(v) |->
          [id |-> generate_point_id(brain_id, Get(items[v[j]], t.key_field)),
           point |-> [payload |-> SeedPayload(brain_id, items[v[j]]),
                      vector |-> embeddings[Len(v) + 1 - j]]]]

\* the points built for the valid items
SeedPoints(brain_id, items, t, embeddings) ==
    LET v == ValidItems(items, t, Len(items))
    IN [j \in 1..Len(v) |->
          [id |-> generate_point_id(brain_id, Get(items[v[j]], t.key_field)),
           point |-> [payload |-> SeedPayload(brain_id, items[v[j]]),
                      vector |-> embeddings[j]]]]

SeedResult(c, n, errors, message) ==
    [c EXCEPT !.pc = "done",
        !.res = [NoResult EXCEPT !.status = "ok", !.brain_id = c.brain_id,
                    !.collection = SeedTools[c.tool].collection,
                    !.seeded_count = n, !.errors = errors, !.message = message]]

\* mutant: a chunk the provider refuses is skipped and the loop goes on
OnEmbeddingError_Skip(c) ==
    LET texts == TextsToEmbed(c.items, SeedTools[c.tool])
        emb == c.all_embeddings \o embed_batch(Chunk(texts, Len(c.all_embeddings)))
    IN [c EXCEPT !.all_embeddings = emb,
                 !.pc = IF Len(emb) < Len(texts) THEN "s_embed" ELSE "s_upsert"]

\* except EmbeddingError: raise ToolError("Embedding failed")
OnEmbeddingError(c) == Fail(c, "embedding_failed")

\* mutant: the brain is validated before the empty list is answered
EmptyItemsReturn_Never(items) == FALSE

\* if not items: return "No items to seed", the first statement
EmptyItemsReturn(items) == items = <<>>

\* the status check of _validate_brain_seedable
NotSeedable(status) == status = "archived"

\* a seed tool is called: _seed_items_to_collection up to its first store read
seed(p, tool, brain_id, items) ==
    /\ Arrive(p)
    /\ LET c == [IdleCall EXCEPT !.op = "seed", !.tool = tool, !.brain_id = brain_id,
                                 !.items = items]
       IN calls' = [calls EXCEPT ![p] =
            IF EmptyItemsReturn(items) THEN SeedResult(c, 0, <<>>, "No items to seed")
            ELSE IF ~validate_brain_id(brain_id) THEN Fail(c, "invalid_brain_id")
            ELSE [c EXCEPT !.pc = "s_get"]]
    /\ UNCHANGED <<brains, content, ext>>

\* await _validate_brain_seedable(brain_id); the validation loop
seed_get(p, ok) ==
    /\ calls[p].pc = "s_get"
    /\ LET c == [calls[p] EXCEPT !.nRead = @ + 1]
           t == SeedTools[c.tool]
           found == validate_brain_exists(c.brain_id)
           errors == SeedErrors(c.items, t, Len(c.items))
       IN IF ~ok THEN calls' = [calls EXCEPT ![p] = Fail(c, "store_error")]
          ELSE IF found = {} THEN calls' = [calls EXCEPT ![p] = Fail(c, "not_found")]
          ELSE \E brain_data \in found :
                 calls' = [calls EXCEPT ![p] =
                    IF NotSeedable(brain_data.status) THEN Fail(c, "archived_brain")
                    ELSE IF ValidItems(c.items, t, Len(c.items)) = <<>>
                         THEN SeedResult(c, 0, errors, "No valid items to seed")
                    ELSE [c EXCEPT !.brain_data = brain_data, !.pc = "s_embed"]]
    /\ UNCHANGED <<brains, content, pre, ncalls, ext>>

\* batch_embeddings = embed_batch(batch) for the next chunk
seed_embed(p, ok) ==
    /\ calls[p].pc = "s_embed"
    /\ LET c == [calls[p] EXCEPT !.nEmbed = @ + 1, !.provider_failed = @ \/ ~ok]
           texts == TextsToEmbed(c.items, SeedTools[c.tool])
           emb == c.all_embeddings \o embed_batch(Chunk(texts, Len(c.all_embeddings)))
       IN calls' = [calls EXCEPT ![p] =
            IF ~ok THEN OnEmbeddingError(c)
            ELSE [c EXCEPT !.all_embeddings = emb,
                           !.pc = IF Len(emb) < Len(texts) THEN "s_embed" ELSE "s_upsert"]]
    /\ UNCHANGED <<brains, content, pre, ncalls, ext>>

\* qdrant.upsert(collection_name = collection, points = points); the result
seed_upsert(p, ok) ==
    /\ calls[p].pc = "s_upsert"
    /\ LET c == [calls[p] EXCEPT !.nWrite = @ + 1]
           t == SeedTools[c.tool]
           points == SeedPoints(c.brain_id, c.items, t, c.all_embeddings)
           errors == SeedErrors(c.items, t, Len(c.items))
       IN IF ~ok
          THEN /\ calls' = [calls EXCEPT ![p] = Fail(c, "store_error")]
               /\ UNCHANGED content
          ELSE /\ content' = [content EXCEPT ![t.collection] = UpsertAll(@, points)]
               /\ calls' = [calls EXCEPT ![p] =
                    SeedResult(c, Len(points), errors,
                               IF Len(errors) > 0 THEN "Seeded with errors"
                               ELSE "Successfully seeded")]
    /\ UNCHANGED <<brains, pre, ncalls, ext>>

\* ------------------------------------------------------------------------
\* get_brain, list_brains and the live stats
\* ------------------------------------------------------------------------
\* the limit of the scroll that counts the points of a brain in a collection
STATS_SCROLL_LIMIT == 1000

\* the limit of the scroll of list_brains
LIST_BRAINS_LIMIT == 100

\* Filter(must = [brain_id = b]) on "brains": the payload key the filter names
BrainPointsByBrainId(brain_id) ==
    {pt \in DOMAIN brains :
        "brain_id" \in DOMAIN brains[pt] /\ brains[pt]["brain_id"] = brain_id}

\* Filter(must = [status = active]) on "brains"
AllActiveBrainPoints == {pt \in DOMAIN brains : brains[pt].status = "active"}

\* the points get_brain scrolls for: by brain_id, else by vertical, else any active
GetBrainMatches(brain_id, vertical) ==
    IF brain_id # "" THEN BrainPointsByBrainId(brain_id)
    ELSE IF vertical # "" THEN ActiveBrainPoints(vertical)
    ELSE AllActiveBrainPoints

\* len(results) of the scroll with limit 1000 filtered by brain_id
CountOfBrain(coll, brain_id) ==
    IF Cardinality(PointsOfBrain(coll, brain_id)) <= STATS_SCROLL_LIMIT
    THEN Cardinality(PointsOfBrain(coll, brain_id)) ELSE STATS_SCROLL_LIMIT

\* except Exception: counts[count_key] = 0
OnCountFailure(c, coll) ==
    [c EXCEPT !.stats[coll] = 0, !.failed = @ \cup {<<c.results[c.idx].id, coll>>}]

\* the entry of a brain in the output of get_brain and list_brains
BrainOutput(payload, stats) ==
    [brain_id |-> payload.id, vertical |-> payload.vertical, status |-> payload.status,
     stats |-> stats]

\* the stats of the current brain are complete: its entry is appended, and
\* the call goes on with the next brain or returns
AfterStats(c) ==
    LET out == Append(c.output, BrainOutput(c.results[c.idx], c.stats))
    IN IF c.idx < Len(c.results)
       THEN [c EXCEPT !.output = out, !.idx = @ + 1, !.i = 1, !.stats = ZeroCounts]
       ELSE [c EXCEPT !.output = out, !.pc = "done",
                !.res = [NoResult EXCEPT !.status = "ok", !.found = TRUE, !.brains = out]]

\* get_brain is called; brain_id and vertical are "" when not given
get_brain(p, brain_id, vertical) ==
    /\ Arrive(p)
    /\ calls' = [calls EXCEPT ![p] =
            [IdleCall EXCEPT !.op = "get", !.brain_id = brain_id, !.vertical = vertical,
                             !.pc = "g_scroll"]]
    /\ UNCHANGED <<brains, content, ext>>

\* the scroll of "brains" with limit 1; None when nothing matches
get_scroll(p, ok) ==
    /\ calls[p].pc = "g_scroll"
    /\ LET c == [calls[p] EXCEPT !.nRead = @ + 1]
       IN IF ~ok THEN calls' = [calls EXCEPT ![p] = Fail(c, "store_error")]
          ELSE \E S \in ScrollResults(GetBrainMatches(c.brain_id, c.vertical), 1) :
                 IF S = {}
                 THEN calls' = [calls EXCEPT ![p] =
                        [c EXCEPT !.pc = "done", !.res = [NoResult EXCEPT !.status = "ok"]]]
                 ELSE \E pt \in S :
                        calls' = [calls EXCEPT ![p] =
                            [c EXCEPT !.results = <<brains[pt]>>, !.idx = 1, !.i = 1,
                                      !.pc = "r_count"]]
    /\ UNCHANGED <<brains, content, pre, ncalls, ext>>

\* list_brains is called
list_brains(p) ==
    /\ Arrive(p)
    /\ calls' = [calls EXCEPT ![p] = [IdleCall EXCEPT !.op = "list", !.pc = "l_scroll"]]
    /\ UNCHANGED <<brains, content, ext>>

\* the scroll of "brains" with limit 100
list_scroll(p, ok) ==
    /\ calls[p].pc = "l_scroll"
    /\ LET c == [calls[p] EXCEPT !.nRead = @ + 1]
       IN IF ~ok THEN calls' = [calls EXCEPT ![p] = Fail(c, "store_error")]
          ELSE \E S \in ScrollResults(DOMAIN brains, LIST_BRAINS_LIMIT) :
               \E order \in Orders(S) :
                 calls' = [calls EXCEPT ![p] =
                    IF S = {}
                    THEN [c EXCEPT !.pc = "done",
                            !.res = [NoResult EXCEPT !.status = "ok", !.found = TRUE]]
                    ELSE [c EXCEPT !.results = [j \in DOMAIN order |-> brains[order[j]]],
                                   !.idx = 1, !.i = 1, !.pc = "r_count"]]
    /\ UNCHANGED <<brains, content, pre, ncalls, ext>>

\* _calculate_brain_stats_internal: the count query of the i-th collection
\* for the current brain
read_count(p, ok) ==
    /\ calls[p].pc = "r_count"
    /\ ok \/ Cardinality(calls[p].failed) < MaxCountFailures
    /\ LET coll == ContentCollections[calls[p].i]
           c0 == [calls[p] EXCEPT !.nRead = @ + 1]
           c1 == IF ok
                 THEN [c0 EXCEPT !.stats[coll] = CountOfBrain(coll, c0.results[c0.idx].id)]
                 ELSE OnCountFailure(c0, coll)
       IN calls' = [calls EXCEPT ![p] =
            IF c1.pc = "done" THEN c1
            ELSE IF c1.i < Len(ContentCollections) THEN [c1 EXCEPT !.i = @ + 1]
            ELSE AfterStats(c1)]
    /\ UNCHANGED <<brains, content, pre, ncalls, ext>>

\* ------------------------------------------------------------------------
\* get_brain_report
\* ------------------------------------------------------------------------
\* the four collections of the report: the seedable ones, without insights
ReportCollections == SubSeq(ContentCollections, 1, 4)

\* models.calculate_completeness, in quarters: the number of the four
\* seedable content kinds with a count above 0
calculate_completeness(stats) ==
    Cardinality({j \in 1..Len(ReportCollections) : stats[ReportCollections[j]] > 0})

\* get_brain_report is called
get_brain_report(p, brain_id) ==
    /\ Arrive(p)
    /\ LET c == [IdleCall EXCEPT !.op = "report", !.brain_id = brain_id]
       IN calls' = [calls EXCEPT ![p] =
            IF ~validate_brain_id(brain_id) THEN Fail(c, "invalid_brain_id")
            ELSE [c EXCEPT !.pc = "p_get"]]
    /\ UNCHANGED <<brains, content, ext>>

\* brain_data = await _validate_brain_exists(brain_id)
report_get(p, ok) ==
    /\ calls[p].pc = "p_get"
    /\ LET c == [calls[p] EXCEPT !.nRead = @ + 1]
           found == validate_brain_exists(c.brain_id)
       IN IF ~ok THEN calls' = [calls EXCEPT ![p] = Fail(c, "store_error")]
          ELSE IF found = {} THEN calls' = [calls EXCEPT ![p] = Fail(c, "not_found")]
          ELSE \E brain_data \in found :
                 calls' = [calls EXCEPT ![p] =
                    [c EXCEPT !.brain_data = brain_data, !.results = <<brain_data>>,
                              !.idx = 1, !.i = 1, !.pc = "p_count"]]
    /\ UNCHANGED <<brains, content, pre, ncalls, ext>>

\* the scroll of the i-th report collection (limit 1000); a failure is
\* recorded as count 0; after the fourth the completeness and the report
report_count(p, ok) ==
    /\ calls[p].pc = "p_count"
    /\ ok \/ Cardinality(calls[p].failed) < MaxCountFailures
    /\ LET coll == ReportCollections[calls[p].i]
           c0 == [calls[p] EXCEPT !.nRead = @ + 1]
           c1 == IF ok THEN [c0 EXCEPT !.stats[coll] = CountOfBrain(coll, c0.brain_id)]
                 ELSE [c0 EXCEPT !.failed = @ \cup {<<c0.brain_id, coll>>}]
       IN calls' = [calls EXCEPT ![p] =
            IF c1.i < Len(ReportCollections) THEN [c1 EXCEPT !.i = @ + 1]
            ELSE [c1 EXCEPT !.pc = "done",
                    !.res = [NoResult EXCEPT !.status = "ok", !.found = TRUE,
                        !.brain_id = c1.brain_id,
                        !.brains = <<BrainOutput(c1.brain_data, c1.stats)>>,
                        !.completeness = calculate_completeness(c1.stats)]]]
    /\ UNCHANGED <<brains, content, pre, ncalls, ext>>

\* ------------------------------------------------------------------------
\* add_insight and the quality gate
\* ------------------------------------------------------------------------
\* Insight texts, their lengths and their pairwise similarity (in percent)
Contents == {"tiny", "c1", "c1b", "c2", "huge"}

ContentLen(text) ==
    IF text = "tiny" THEN 9 ELSE IF text = "huge" THEN 5001 ELSE 40

Similarity(a, b) ==
    IF a = b THEN 100
    ELSE IF {a, b} = {"c1", "c1b"} THEN 90
    ELSE 10

InsightCategory ==
    {"buying_process", "pain_point", "objection", "competitive_intel",
     "messaging_effectiveness", "icp_signal"}

Importance == {"low", "medium", "high"}

\* quality_gates: similarity at or above which an insight is a duplicate
DUPLICATE_THRESHOLD == 85

\* quality_gates: confidence below which an insight is rejected
CONFIDENCE_FLOOR == 50

\* quality_gates: confidence below which an accepted insight needs validation
VALIDATION_THRESHOLD == 70

\* quality_gates: confidence from source reliability and importance
calculate_confidence(importance, source) ==
    (IF source.type = "call_transcript" THEN 90
     ELSE IF source.type = "email_reply" THEN 80
     ELSE IF source.type = "linkedin_message" THEN 70
     ELSE 55)
    - (IF importance = "low" THEN 10 ELSE 0)

\* the stored insights of a brain
InsightsOfBrain(brain_id) ==
    {pt \in DOMAIN content["insights"] :
        content["insights"][pt].payload.brain_id = brain_id}

\* quality_gates: the nearest stored insights of the brain
TopMatches(brain_id, text) ==
    {pt \in InsightsOfBrain(brain_id) :
        \A q \in InsightsOfBrain(brain_id) :
            Similarity(text, content["insights"][q].payload.content)
                <= Similarity(text, content["insights"][pt].payload.content)}

\* quality_gates.run_quality_gate: the results it can return on the store as it is
run_quality_gate(brain_id, text, category, importance, source) ==
    LET confidence == calculate_confidence(importance, source)
        base == [NoGate EXCEPT !.ran = TRUE, !.confidence_score = confidence]
        dups == {pt \in TopMatches(brain_id, text) :
                    Similarity(text, content["insights"][pt].payload.content)
                        >= DUPLICATE_THRESHOLD}
    IN IF dups # {}
       THEN {[base EXCEPT !.is_duplicate = TRUE, !.duplicate_id = pt,
                !.similarity_score =
                    Similarity(text, content["insights"][pt].payload.content)] :
             pt \in dups}
       ELSE IF confidence < CONFIDENCE_FLOOR
       THEN {[base EXCEPT !.rejection_reason = "low_confidence"]}
       ELSE {[base EXCEPT !.passed = TRUE,
                !.requires_validation =
                    (importance = "high" \/ confidence < VALIDATION_THRESHOLD)]}

\* uuid.uuid4(): an id no stored insight has
UuidPool == {"u1", "u2", "u3"}

\* mutant: the id of the new insight may be one that is already stored
NewInsightIds_Reused == {<<"uuid", u>> : u \in UuidPool} \cup DOMAIN content["insights"]

NewInsightIds == {<<"uuid", u>> : u \in UuidPool} \ DOMAIN content["insights"]

\* the payload add_insight stores
InsightPayload(brain_id, text, category, importance, source, confidence, needs) ==
    [brain_id |-> brain_id, content |-> text, category |-> category,
     importance |-> importance, source |-> source, confidence |-> confidence,
     validation |-> [status |-> "pending", needs_validation |-> needs]]

\* mutant: only a rejection stops the call, a duplicate is stored
GateStops_RejectedOnly(gate) == ~gate.passed /\ ~gate.is_duplicate

\* if not gate_result.passed
GateStops(gate) == ~gate.passed

\* the output of a call the gate has stopped
GateOutput(gate) ==
    IF gate.is_duplicate
    THEN [NoResult EXCEPT !.status = "duplicate", !.existing_id = gate.duplicate_id,
                          !.reason = "similar_insight_exists"]
    ELSE [NoResult EXCEPT !.status = "rejected", !.reason = gate.rejection_reason]

\* add_insight is called: the input validation
add_insight(p, brain_id, text, category, importance, source) ==
    /\ Arrive(p)
    /\ LET c == [IdleCall EXCEPT !.op = "insight", !.brain_id = brain_id,
                    !.content = text, !.category = category,
                    !.importance = importance, !.source = source]
       IN calls' = [calls EXCEPT ![p] =
            IF ~validate_brain_id(brain_id) THEN Fail(c, "invalid_brain_id")
            ELSE IF ContentLen(text) < 10 THEN Fail(c, "content_too_short")
            ELSE IF ContentLen(text) > 5000 THEN Fail(c, "content_too_long")
            ELSE IF category \notin InsightCategory THEN Fail(c, "invalid_category")
            ELSE IF importance \notin Importance THEN Fail(c, "invalid_importance")
            ELSE IF ~source.given THEN Fail(c, "source_required")
            ELSE IF source.type = "" THEN Fail(c, "source_type_required")
            ELSE IF source.id = "" THEN Fail(c, "source_id_required")
            ELSE [c EXCEPT !.pc = "i_gate_embed"]]
    /\ UNCHANGED <<brains, content, ext>>

\* run_quality_gate: the embedding of the content for the duplicate search
insight_gate_embed(p, ok) ==
    /\ calls[p].pc = "i_gate_embed"
    /\ LET c == [calls[p] EXCEPT !.nEmbed = @ + 1]
       IN calls' = [calls EXCEPT ![p] =
            IF ~ok THEN Fail(c, "store_error") ELSE [c EXCEPT !.pc = "i_gate_query"]]
    /\ UNCHANGED <<brains, content, pre, ncalls, ext>>

\* run_quality_gate: the similarity query and the verdict; the gate's result
\* is handled
insight_gate_query(p, ok) ==
    /\ calls[p].pc = "i_gate_query"
    /\ LET c == [calls[p] EXCEPT !.nRead = @ + 1]
       IN IF ~ok THEN calls' = [calls EXCEPT ![p] = Fail(c, "store_error")]
          ELSE \E gate \in run_quality_gate(c.brain_id, c.content, c.category,
                                            c.importance, c.source) :
                 calls' = [calls EXCEPT ![p] =
                    IF GateStops(gate)
                    THEN [c EXCEPT !.gate = gate, !.pc = "done", !.res = GateOutput(gate)]
                    ELSE [c EXCEPT !.gate = gate, !.pc = "i_embed"]]
    /\ UNCHANGED <<brains, content, pre, ncalls, ext>>

\* content_vector = embed_document(content)
insight_embed(p, ok) ==
    /\ calls[p].pc = "i_embed"
    /\ LET c == [calls[p] EXCEPT !.nEmbed = @ + 1]
       IN calls' = [calls EXCEPT ![p] =
            IF ~ok THEN Fail(c, "store_error") ELSE [c EXCEPT !.pc = "i_upsert"]]
    /\ UNCHANGED <<brains, content, pre, ncalls, ext>>

\* qdrant.upsert of the new insight under a fresh uuid; the result
insight_upsert(p, ok) ==
    /\ calls[p].pc = "i_upsert"
    /\ LET c == [calls[p] EXCEPT !.nWrite = @ + 1]
       IN IF ~ok
          THEN /\ calls' = [calls EXCEPT ![p] = Fail(c, "store_error")]
               /\ UNCHANGED content
          ELSE \E insight_id \in NewInsightIds :
               /\ content' = [content EXCEPT !["insights"] =
                    Upsert(@, insight_id,
                        [payload |-> InsightPayload(c.brain_id, c.content, c.category,
                                        c.importance, c.source, c.gate.confidence_score,
                                        c.gate.requires_validation),
                         vector |-> embed_batch(<<c.content>>)[1]])]
               /\ calls' = [calls EXCEPT ![p] = [c EXCEPT !.pc = "done",
                    !.res = [NoResult EXCEPT !.status = "created", !.id = insight_id,
                                !.confidence = c.gate.confidence_score,
                                !.needs_validation = c.gate.requires_validation]]]
    /\ UNCHANGED <<brains, pre, ncalls, ext>>

\* ------------------------------------------------------------------------
\* attio: pipeline stages, the client's retry loop, update_pipeline_stage
\* and prefetch_pipeline_config
\* ------------------------------------------------------------------------
\* class PipelineStage
PipelineStage ==
    {"new_reply", "qualifying", "meeting_scheduled", "meeting_held", "proposal",
     "closed_won", "closed_lost"}

VALID_STAGE_TRANSITIONS_Cyclic ==
    [new_reply         |-> {"qualifying", "closed_lost"},
     qualifying        |-> {"meeting_scheduled", "closed_lost"},
     meeting_scheduled |-> {"meeting_held", "closed_lost"},
     meeting_held      |-> {"proposal", "closed_lost"},
     proposal          |-> {"closed_won", "closed_lost", "meeting_held"},
     closed_won        |-> {},
     closed_lost       |-> {}]

VALID_STAGE_TRANSITIONS ==
    [new_reply         |-> {"qualifying", "closed_lost"},
     qualifying        |-> {"meeting_scheduled", "closed_lost"},
     meeting_scheduled |-> {"meeting_held", "closed_lost"},
     meeting_held      |-> {"proposal", "closed_lost"},
     proposal          |-> {"closed_won", "closed_lost"},
     closed_won        |-> {},
     closed_lost       |-> {}]

\* mutant: a stage may be requested again for the record that is in it
validate_stage_transition_Reflexive(from_stage, to_stage) ==
    /\ from_stage \in DOMAIN VALID_STAGE_TRANSITIONS
    /\ to_stage \in VALID_STAGE_TRANSITIONS[from_stage] \cup {from_stage}

validate_stage_transition(from_stage, to_stage) ==
    /\ from_stage \in DOMAIN VALID_STAGE_TRANSITIONS
    /\ to_stage \in VALID_STAGE_TRANSITIONS[from_stage]

\* Identifiers the tools are called with, and len(id.strip()) of each
RecordInPipeline == "rec_test1234567"
RecordElsewhere == "rec_other123456"
ShortRecordId == "rec_1"
DefaultListId == "test-list-12345"
OtherListId == "list-other-1234"
ShortListId == "l1"

TrimmedLen(id) ==
    CASE id \in {RecordInPipeline, RecordElsewhere, DefaultListId, OtherListId} -> 15
      [] id = ShortRecordId -> 5
      [] id = ShortListId -> 2
      [] OTHER -> 0

validate_record_id(record_id) ==
    record_id # "" /\ TrimmedLen(record_id) >= 10 /\ TrimmedLen(record_id) <= 100

validate_list_id(list_id) ==
    list_id # "" /\ TrimmedLen(list_id) >= 5 /\ TrimmedLen(list_id) <= 100

\* the environment variable ATTIO_PIPELINE_LIST_ID
ATTIO_PIPELINE_LIST_ID == DefaultListId

\* status.get("title", "").lower().replace(" ", "_") for the titles in use
StatusName(title) ==
    CASE title = "New Reply" -> "new_reply"
      [] title = "Qualifying" -> "qualifying"
      [] title = "Meeting Scheduled" -> "meeting_scheduled"
      [] title = "Meeting Held" -> "meeting_held"
      [] title = "Proposal" -> "proposal"
      [] title = "Closed Won" -> "closed_won"
      [] title = "closed lost" -> "closed_lost"
      [] title = "On Hold" -> "on_hold"
      [] OTHER -> ""

\* the statuses of a list's status attribute: (title, status_id)
StatusOption(title, status_id) == [title |-> title, status_id |-> status_id]

FullStatuses ==
    <<StatusOption("New Reply", "status_new"),
      StatusOption("Qualifying", "status_qualifying"),
      StatusOption("Meeting Scheduled", "status_scheduled"),
      StatusOption("Meeting Held", "status_held"),
      StatusOption("Proposal", "status_proposal"),
      StatusOption("Closed Won", "status_won"),
      StatusOption("closed lost", "status_lost")>>

\* a list with a status outside the pipeline stages, one without a title
\* and one without a status_id
ExtendedStatuses ==
    FullStatuses \o
    <<StatusOption("On Hold", "status_hold"), StatusOption("", "status_untitled"),
      StatusOption("Proposal", "")>>

\* a list that knows two of the stages only
PartialStatuses ==
    <<StatusOption("New Reply", "status_new"), StatusOption("Closed Won", "status_won")>>

ListSchemas == {FullStatuses, ExtendedStatuses, PartialStatuses}

StatusIds == {FullStatuses[j].status_id : j \in 1..Len(FullStatuses)} \cup {"status_hold"}

\* the loop of _get_list_status_mapping over the statuses: name -> status_id
RECURSIVE StatusMapping(_)
StatusMapping(statuses) ==
    IF statuses = <<>> THEN <<>>
    ELSE LET rest == StatusMapping(SubSeq(statuses, 1, Len(statuses) - 1))
             last == statuses[Len(statuses)]
             status_name == StatusName(last.title)
         IN IF status_name # "" /\ last.status_id # ""
            THEN [n \in (DOMAIN rest) \cup {status_name} |->
                    IF n = status_name THEN last.status_id ELSE rest[n]]
            ELSE rest

\* status_id_to_name.get(current_status_id): "" stands for None
CurrentStage(status_mapping, current_status_id) ==
    IF \E n \in DOMAIN status_mapping : status_mapping[n] = current_status_id
    THEN CHOOSE n \in DOMAIN status_mapping : status_mapping[n] = current_status_id
    ELSE ""

\* ---- the HTTP client: AttioClient._request and HeyReachClient._request ----
MAX_RETRIES == 3

Clients == {"attio", "heyreach"}

\* what one HTTP attempt ends with: a response with a status code (and, for
\* HeyReach, what its error message says), or an exception of httpx
HttpResponse(status_code, message) ==
    [kind |-> "response", status_code |-> status_code, message |-> message]

HttpException(kind) == [kind |-> kind, status_code |-> 0, message |-> ""]

StatusCodes == {200, 201, 400, 401, 403, 404, 409, 422, 429, 499, 500, 503, 599, 600}

HttpOutcomes ==
    {HttpResponse(s, "") : s \in StatusCodes}
    \cup {HttpResponse(400, m) : m \in {"disconnected", "campaign paused", "limit reached"}}
    \cup {HttpException(k) : k \in {"timeout", "network", "protocol"}}

\* attio.models.classify_http_error
classify_http_error(status_code) ==
    IF status_code = 401 THEN "authentication"
    ELSE IF status_code = 403 THEN "permission_denied"
    ELSE IF status_code = 404 THEN "not_found"
    ELSE IF status_code = 409 THEN "conflict"
    ELSE IF status_code = 422 THEN "validation"
    ELSE IF status_code = 429 THEN "rate_limited"
    ELSE IF status_code >= 400 /\ status_code < 500 THEN "bad_request"
    ELSE IF status_code >= 500 /\ status_code < 600 THEN "service_unavailable"
    ELSE "unknown"

\* heyreach.models.classify_http_error
heyreach_classify_http_error(status_code, error_message) ==
    IF status_code = 401 THEN "authentication"
    ELSE IF status_code = 403 THEN "permission_denied"
    ELSE IF status_code = 404 THEN "not_found"
    ELSE IF status_code = 429 THEN "rate_limited"
    ELSE IF status_code = 422 THEN "validation"
    ELSE IF status_code >= 400 /\ status_code < 500
    THEN IF error_message = "disconnected" THEN "account_disconnected"
         ELSE IF error_message = "campaign paused" THEN "campaign_not_active"
         ELSE IF error_message = "limit reached" THEN "daily_limit_reached"
         ELSE "bad_request"
    ELSE IF status_code >= 500 /\ status_code < 600 THEN "service_unavailable"
    ELSE "unknown"

\* mutant: a 4xx answer other than the named ones is retried as well
is_retriable_BadRequestToo(error_type) ==
    error_type \in {"rate_limited", "network_error", "timeout", "service_unavailable",
                    "bad_request"}

\* AttioErrorType.is_retriable and HeyReachErrorType.is_retriable
is_retriable(error_type) ==
    error_type \in {"rate_limited", "network_error", "timeout", "service_unavailable"}

\* the exception one attempt raises: "" for none, "raw" for an exception of
\* httpx that _request does not catch
ErrorType(client, outcome) ==
    IF outcome.kind = "timeout" THEN "timeout"
    ELSE IF outcome.kind = "network" THEN "network_error"
    ELSE IF outcome.kind = "protocol" THEN "raw"
    ELSE IF outcome.status_code < 400 THEN ""
    ELSE IF client = "attio" THEN classify_http_error(outcome.status_code)
    ELSE heyreach_classify_http_error(outcome.status_code, outcome.message)

\* the retry decorator after the attempts so far: the answer is returned,
\* the call is made again, or the last exception is raised
RetryDecision(client, attempts) ==
    LET e == ErrorType(client, attempts[Len(attempts)])
    IN IF e = "" THEN "return"
       ELSE IF is_retriable(e) /\ Len(attempts) < MAX_RETRIES THEN "again"
       ELSE "raise"

\* ---- the calls of the attio, heyreach and verticals tools ----
NoToolResult ==
    [status |-> "", error |-> "", cached |-> FALSE, stages |-> {},
     previous_stage |-> "", new_stage |-> "", forced |-> FALSE,
     vertical |-> <<>>, confidence |-> 0, method |-> ""]

IdleTool ==
    [op |-> "none", pc |-> "idle", client |-> "",
     record_id |-> "", stage |-> "", list_id |-> "", force |-> FALSE,
     pipeline_list_id |-> "", current_status_id |-> "", status_id |-> "",
     was_cached |-> FALSE, attempts |-> <<>>, nSchema |-> 0, nPatch |-> 0,
     industry |-> <<>>, title |-> <<>>, campaign_id |-> <<>>, vertical |-> <<>>,
     use_ai_fallback |-> FALSE,
     before |-> <<>>, served_before |-> {},
     res |-> NoToolResult]

\* an Attio workspace that holds nothing
\* history: for each list entry that is followed, the _transition of every
\* update_pipeline_stage call that has succeeded on it, in order
NoAttio == [entries |-> <<>>, statuses |-> <<>>, served |-> {}, history |-> <<>>]

\* the state outside the knowledge-base store when no attio, heyreach or
\* verticals tool has been called
ExtIdle ==
    /\ attio = NoAttio
    /\ list_status_cache = <<>>
    /\ verticals = <<>>
    /\ tools = [p \in Procs |-> IdleTool]

\* raise ToolError(...) / raise _convert_to_tool_error(e)
ToolFail(c, kind) ==
    [c EXCEPT !.pc = "done",
              !.res = [NoToolResult EXCEPT !.status = "error", !.error = kind]]

ToolArrive(p) ==
    /\ tools[p].pc = "idle"
    /\ ncalls < MaxCalls
    /\ ncalls' = ncalls + 1
    /\ UNCHANGED <<brains, content, calls, pre>>

ToolReturn(p) ==
    /\ tools[p].pc = "done"
    /\ tools' = [tools EXCEPT ![p] = IdleTool]
    /\ UNCHANGED <<brains, content, calls, pre, ncalls, attio, list_status_cache, verticals>>

\* the frame after one more HTTP attempt of the request it waits for
Attempted(c, outcome) == [c EXCEPT !.attempts = Append(@, outcome)]

\* the ToolError a request that raised is converted to
RequestError(client, attempts) ==
    LET e == ErrorType(client, attempts[Len(attempts)])
    IN IF e = "raw" THEN "operation_failed" ELSE e

\* a bare client request: get / post / patch of either client
request(p, client) ==
    /\ ToolArrive(p)
    /\ tools' = [tools EXCEPT ![p] =
            [IdleTool EXCEPT !.op = "request", !.client = client, !.pc = "r_http"]]
    /\ UNCHANGED <<attio, list_status_cache, verticals>>

\* one HTTP attempt of _request and the retry decision that follows it
request_attempt(p, outcome) ==
    /\ tools[p].pc = "r_http"
    /\ LET c == Attempted(tools[p], outcome)
           decision == RetryDecision(c.client, c.attempts)
       IN tools' = [tools EXCEPT ![p] =
            IF decision = "again" THEN c
            ELSE IF decision = "raise" THEN ToolFail(c, RequestError(c.client, c.attempts))
            ELSE [c EXCEPT !.pc = "done", !.res = [NoToolResult EXCEPT !.status = "ok"]]]
    /\ UNCHANGED <<brains, content, calls, pre, ncalls, attio, list_status_cache, verticals>>

\* mutant: the cache is never consulted
CacheHit_Never(list_id) == FALSE

\* if list_id in _list_status_cache
CacheHit(list_id) == list_id \in DOMAIN list_status_cache

\* _list_status_cache[list_id] = status_mapping
CacheSet(list_id, status_mapping) ==
    [l \in (DOMAIN list_status_cache) \cup {list_id} |->
        IF l = list_id THEN status_mapping ELSE list_status_cache[l]]

\* list_id or _get_pipeline_list_id()
PipelineListId(list_id) == IF list_id # "" THEN list_id ELSE ATTIO_PIPELINE_LIST_ID

\* mutant: the transition is validated even when force is set
AfterMapping_ForceIgnored(c, status_mapping) ==
    LET current_stage == IF c.current_status_id # ""
                         THEN CurrentStage(status_mapping, c.current_status_id)
                         ELSE ""
        \* stage.lower(): PipelineStage.validate has admitted lower-case names only
        target_stage == c.stage
        d == [c EXCEPT !.res.previous_stage = current_stage,
                       !.res.new_stage = target_stage, !.res.forced = c.force]
    IN IF current_stage # ""
            /\ ~validate_stage_transition(current_stage, target_stage)
       THEN [d EXCEPT !.pc = "done", !.res.status = "error",
                      !.res.error = "invalid_transition",
                      !.res.stages = IF current_stage \in DOMAIN VALID_STAGE_TRANSITIONS
                                     THEN VALID_STAGE_TRANSITIONS[current_stage] ELSE {}]
       ELSE IF target_stage \notin DOMAIN status_mapping
       THEN [d EXCEPT !.pc = "done", !.res.status = "error",
                      !.res.error = "stage_not_in_list",
                      !.res.stages = DOMAIN status_mapping]
       ELSE [d EXCEPT !.pc = "u_patch", !.attempts = <<>>,
                      !.status_id = status_mapping[target_stage]]

\* update_pipeline_stage from the status mapping on: the current stage, the
\* transition check, the status_id of the target, and the PATCH that is sent
AfterMapping(c, status_mapping) ==
    LET current_stage == IF c.current_status_id # ""
                         THEN CurrentStage(status_mapping, c.current_status_id)
                         ELSE ""
        \* stage.lower(): PipelineStage.validate has admitted lower-case names only
        target_stage == c.stage
        d == [c EXCEPT !.res.previous_stage = current_stage,
                       !.res.new_stage = target_stage, !.res.forced = c.force]
    IN IF current_stage # "" /\ ~c.force
            /\ ~validate_stage_transition(current_stage, target_stage)
       THEN [d EXCEPT !.pc = "done", !.res.status = "error",
                      !.res.error = "invalid_transition",
                      !.res.stages = IF current_stage \in DOMAIN VALID_STAGE_TRANSITIONS
                                     THEN VALID_STAGE_TRANSITIONS[current_stage] ELSE {}]
       ELSE IF target_stage \notin DOMAIN status_mapping
       THEN [d EXCEPT !.pc = "done", !.res.status = "error",
                      !.res.error = "stage_not_in_list",
                      !.res.stages = DOMAIN status_mapping]
       ELSE [d EXCEPT !.pc = "u_patch", !.attempts = <<>>,
                      !.status_id = status_mapping[target_stage]]

\* update_pipeline_stage is called: the input validation, then the query
\* for the record's entry is sent
update_pipeline_stage(p, record_id, stage, list_id, force) ==
    /\ ToolArrive(p)
    /\ LET c == [IdleTool EXCEPT !.op = "update_stage", !.client = "attio",
                    !.record_id = record_id, !.stage = stage, !.list_id = list_id,
                    !.force = force, !.pipeline_list_id = PipelineListId(list_id),
                    !.before = attio.entries, !.served_before = attio.served]
       IN tools' = [tools EXCEPT ![p] =
            IF ~validate_record_id(record_id) THEN ToolFail(c, "invalid_record_id")
            ELSE IF stage \notin PipelineStage THEN ToolFail(c, "invalid_stage")
            ELSE IF ~validate_list_id(c.pipeline_list_id) THEN ToolFail(c, "invalid_list_id")
            ELSE [c EXCEPT !.pc = "u_query"]]
    /\ UNCHANGED <<attio, list_status_cache, verticals>>

\* POST /lists/{id}/entries/query is answered; on a cache hit the mapping is
\* at hand and the call goes on to the transition check
stage_query(p, outcome) ==
    /\ tools[p].pc = "u_query"
    /\ LET c == Attempted(tools[p], outcome)
           decision == RetryDecision("attio", c.attempts)
           entry == <<c.pipeline_list_id, c.record_id>>
       IN tools' = [tools EXCEPT ![p] =
            IF decision = "again" THEN c
            ELSE IF decision = "raise" THEN ToolFail(c, RequestError("attio", c.attempts))
            ELSE IF entry \notin DOMAIN attio.entries THEN ToolFail(c, "not_in_pipeline")
            ELSE LET d == [c EXCEPT !.current_status_id = attio.entries[entry]]
                 IN IF CacheHit(c.pipeline_list_id)
                    THEN AfterMapping(d, list_status_cache[c.pipeline_list_id])
                    ELSE [d EXCEPT !.pc = "u_schema", !.attempts = <<>>]]
    /\ UNCHANGED <<brains, content, calls, pre, ncalls, attio, list_status_cache, verticals>>

\* GET /lists/{id} of _get_list_status_mapping is answered, within
\* update_pipeline_stage
stage_schema(p, outcome) ==
    /\ tools[p].pc = "u_schema"
    /\ LET c == Attempted([tools[p] EXCEPT !.nSchema = @ + 1], outcome)
           decision == RetryDecision("attio", c.attempts)
           status_mapping == StatusMapping(attio.statuses)
       IN IF decision = "again"
          THEN tools' = [tools EXCEPT ![p] = c] /\ UNCHANGED <<attio, list_status_cache>>
          ELSE IF decision = "raise"
          THEN /\ tools' = [tools EXCEPT ![p] =
                                ToolFail(c, RequestError("attio", c.attempts))]
               /\ UNCHANGED <<attio, list_status_cache>>
          ELSE /\ attio' = [attio EXCEPT !.served = @ \cup {c.pipeline_list_id}]
               /\ list_status_cache' = CacheSet(c.pipeline_list_id, status_mapping)
               /\ tools' = [tools EXCEPT ![p] = AfterMapping(c, status_mapping)]
    /\ UNCHANGED <<brains, content, calls, pre, ncalls, verticals>>

\* result["_transition"]
Transition(c) ==
    [previous_stage |-> c.res.previous_stage, new_stage |-> c.res.new_stage,
     forced |-> c.res.forced]

\* history with the transition t added for entry, when entry is followed
Followed(history, entry, t) ==
    IF entry \in DOMAIN history THEN [history EXCEPT ![entry] = Append(@, t)]
    ELSE history

\* PATCH /lists/{id}/entries/{entry_id} is answered; the result
stage_patch(p, outcome) ==
    /\ tools[p].pc = "u_patch"
    /\ LET c == Attempted([tools[p] EXCEPT !.nPatch = @ + 1], outcome)
           decision == RetryDecision("attio", c.attempts)
           entry == <<c.pipeline_list_id, c.record_id>>
       IN IF decision = "again"
          THEN tools' = [tools EXCEPT ![p] = c] /\ UNCHANGED attio
          ELSE IF decision = "raise"
          THEN /\ tools' = [tools EXCEPT ![p] =
                                ToolFail(c, RequestError("attio", c.attempts))]
               /\ UNCHANGED attio
          ELSE /\ attio' = [attio EXCEPT !.entries[entry] = c.status_id,
                                          !.history = Followed(@, entry, Transition(c))]
               /\ tools' = [tools EXCEPT ![p] = [c EXCEPT !.pc = "done", !.res.status = "ok"]]
    /\ UNCHANGED <<brains, content, calls, pre, ncalls, list_status_cache, verticals>>

\* the result of prefetch_pipeline_config
PrefetchResult(c, status_mapping) ==
    [c EXCEPT !.pc = "done",
              !.res = [NoToolResult EXCEPT !.status = "ok", !.cached = c.was_cached,
                                           !.stages = DOMAIN status_mapping]]

\* prefetch_pipeline_config is called: was_cached is taken, and on a cache
\* miss the list is requested
prefetch_pipeline_config(p, list_id) ==
    /\ ToolArrive(p)
    /\ LET l == PipelineListId(list_id)
           c == [IdleTool EXCEPT !.op = "prefetch", !.client = "attio",
                    !.list_id = list_id, !.pipeline_list_id = l,
                    !.was_cached = l \in DOMAIN list_status_cache,
                    !.served_before = attio.served]
       IN tools' = [tools EXCEPT ![p] =
            IF ~validate_list_id(l) THEN ToolFail([c EXCEPT !.was_cached = FALSE],
                                                  "invalid_list_id")
            ELSE IF CacheHit(l) THEN PrefetchResult(c, list_status_cache[l])
            ELSE [c EXCEPT !.pc = "f_schema"]]
    /\ UNCHANGED <<attio, list_status_cache, verticals>>

\* GET /lists/{id} of _get_list_status_mapping is answered, within
\* prefetch_pipeline_config
prefetch_schema(p, outcome) ==
    /\ tools[p].pc = "f_schema"
    /\ LET c == Attempted([tools[p] EXCEPT !.nSchema = @ + 1], outcome)
           decision == RetryDecision("attio", c.attempts)
           status_mapping == StatusMapping(attio.statuses)
       IN IF decision = "again"
          THEN tools' = [tools EXCEPT ![p] = c] /\ UNCHANGED <<attio, list_status_cache>>
          ELSE IF decision = "raise"
          THEN /\ tools' = [tools EXCEPT ![p] =
                                ToolFail(c, RequestError("attio", c.attempts))]
               /\ UNCHANGED <<attio, list_status_cache>>
          ELSE /\ attio' = [attio EXCEPT !.served = @ \cup {c.pipeline_list_id}]
               /\ list_status_cache' = CacheSet(c.pipeline_list_id, status_mapping)
               /\ tools' = [tools EXCEPT ![p] = PrefetchResult(c, status_mapping)]
    /\ UNCHANGED <<brains, content, calls, pre, ncalls, verticals>>

\* ------------------------------------------------------------------------
\* verticals: detect_vertical
\* ------------------------------------------------------------------------
\* Texts are sequences of characters; <<>> stands for None and for "".
LowerChar(ch) ==
    IF ch = "F" THEN "f" ELSE IF ch = "H" THEN "h" ELSE IF ch = "N" THEN "n"
    ELSE IF ch = "T" THEN "t" ELSE ch

\* str.lower()
Lower(text) == [j \in DOMAIN text |-> LowerChar(text[j])]

\* not text.strip(): nothing but white space
IsBlank(text) == \A j \in DOMAIN text : text[j] = " "

\* sub in text
Contains(text, sub) ==
    \E j \in 0..(Len(text) - Len(sub)) : SubSeq(text, j + 1, j + Len(sub)) = sub

\* re.match("^" + pattern.replace("*", ".*").replace("?", ".") + "$", text)
RECURSIVE GlobMatch(_, _)
GlobMatch(pattern, text) ==
    IF pattern = <<>> THEN text = <<>>
    ELSE IF Head(pattern) = "*"
    THEN \/ GlobMatch(Tail(pattern), text)
         \/ text # <<>> /\ GlobMatch(pattern, Tail(text))
    ELSE /\ text # <<>>
         /\ Head(pattern) = "?" \/ Head(pattern) = Head(text)
         /\ GlobMatch(Tail(pattern), Tail(text))

\* d[key] = slug on a dict kept as its items in insertion order
DictPut(d, key, slug) ==
    IF \E j \in 1..Len(d) : d[j][1] = key
    THEN [j \in 1..Len(d) |-> IF d[j][1] = key THEN <<key, slug>> ELSE d[j]]
    ELSE Append(d, <<key, slug>>)

\* for kw in keywords: d[kw.lower()] = slug
RECURSIVE PutAll(_, _, _)
PutAll(d, keywords, slug) ==
    IF keywords = <<>> THEN d
    ELSE PutAll(DictPut(d, Lower(Head(keywords)), slug), Tail(keywords), slug)

\* the detection index of one payload field over the scroll results
RECURSIVE DetectionIndex(_, _)
DetectionIndex(results, field) ==
    IF results = <<>> THEN <<>>
    ELSE PutAll(DetectionIndex(SubSeq(results, 1, Len(results) - 1), field),
                results[Len(results)][field], results[Len(results)].slug)

\* exclusions.get(v_slug, set()): the list of the last result with the slug
\* that has a non-empty one
Exclusions(results, v_slug) ==
    LET with == {j \in 1..Len(results) :
                    results[j].slug = v_slug /\ results[j].exclusion_keywords # <<>>}
    IN IF with = {} THEN {}
       ELSE LET last == CHOOSE j \in with : \A k \in with : k <= j
            IN {Lower(results[last].exclusion_keywords[k]) :
                    k \in 1..Len(results[last].exclusion_keywords)}

\* the scroll for the active verticals (limit 100)
ActiveVerticals == SelectSeq(verticals, LAMBDA v : v.is_active)

\* step 2: the items of industry_to_vertical that decide for an industry
IndustryHit(results, industry_lower, item) ==
    /\ Contains(industry_lower, item[1]) \/ Contains(item[1], industry_lower)
    /\ ~\E ex \in Exclusions(results, item[2]) : Contains(industry_lower, ex)

\* for ... in d.items(): the position of the first item whose test holds,
\* hits[j] being the test on item j; 0 if none
FirstHit(hits) ==
    IF \E j \in 1..Len(hits) : hits[j]
    THEN CHOOSE j \in 1..Len(hits) : hits[j] /\ \A k \in 1..(j - 1) : ~hits[k]
    ELSE 0

DetectResult(vertical, confidence, method) ==
    [NoToolResult EXCEPT !.status = "ok", !.vertical = vertical,
                         !.confidence = confidence, !.method = method]

default_vertical == <<"s", "a", "a", "s">>

\* if vertical and vertical.strip()
ExplicitGiven(vertical) == vertical # <<>> /\ ~IsBlank(vertical)

\* detect_vertical, from the scroll result on; confidences in tenths
Detect(results, c) ==
    LET industry_to_vertical == DetectionIndex(results, "industry_keywords")
        title_to_vertical == DetectionIndex(results, "title_keywords")
        campaign_to_vertical == DetectionIndex(results, "campaign_patterns")
        alias_to_vertical == DetectionIndex(results, "aliases")
        v_lower == Lower(c.vertical)
        alias == FirstHit([j \in 1..Len(alias_to_vertical) |-> alias_to_vertical[j][1] = v_lower])
        by_industry == FirstHit([j \in 1..Len(industry_to_vertical) |->
                            IndustryHit(results, Lower(c.industry), industry_to_vertical[j])])
        by_campaign == FirstHit([j \in 1..Len(campaign_to_vertical) |->
                            GlobMatch(campaign_to_vertical[j][1], Lower(c.campaign_id))])
        by_title == FirstHit([j \in 1..Len(title_to_vertical) |->
                            Contains(Lower(c.title), title_to_vertical[j][1])])
    IN IF results = <<>> THEN DetectResult(default_vertical, 1, "default")
       ELSE IF ExplicitGiven(c.vertical)
       THEN DetectResult(IF alias # 0 THEN alias_to_vertical[alias][2] ELSE v_lower,
                         10, "explicit")
       ELSE IF c.industry # <<>> /\ by_industry # 0
       THEN DetectResult(industry_to_vertical[by_industry][2], 9, "industry")
       ELSE IF c.campaign_id # <<>> /\ by_campaign # 0
       THEN DetectResult(campaign_to_vertical[by_campaign][2], 7, "campaign")
       ELSE IF c.title # <<>> /\ by_title # 0
       THEN DetectResult(title_to_vertical[by_title][2], 5, "title")
       ELSE DetectResult(default_vertical, 1, "default")

\* detect_vertical is called: up to the scroll for the active verticals
detect_vertical(p, industry, title, campaign_id, vertical, use_ai_fallback) ==
    /\ ToolArrive(p)
    /\ tools' = [tools EXCEPT ![p] =
            [IdleTool EXCEPT !.op = "detect", !.pc = "v_scroll", !.industry = industry,
                             !.title = title, !.campaign_id = campaign_id,
                             !.vertical = vertical, !.use_ai_fallback = use_ai_fallback]]
    /\ UNCHANGED <<attio, list_status_cache, verticals>>

\* the scroll is answered; the waterfall
detect_scroll(p, ok) ==
    /\ tools[p].pc = "v_scroll"
    /\ tools' = [tools EXCEPT ![p] =
            IF ~ok THEN ToolFail(tools[p], "store_error")
            ELSE [tools[p] EXCEPT !.pc = "done", !.res = Detect(ActiveVerticals, tools[p])]]
    /\ UNCHANGED <<brains, content, calls, pre, ncalls, attio, list_status_cache, verticals>>

\* ------------------------------------------------------------------------
\* Stores the program can be started on
\* ------------------------------------------------------------------------
Statuses(s) ==
    [pt \in {generate_point_id(b, b) : b \in {x \in BrainIds : s[x] # "none"}} |->
        [id |-> pt[1], vertical |-> VerticalOf(pt[1]), status |-> s[pt[1]]]]

AtMostOneActive(bs) ==
    \A v \in Verticals :
        Cardinality({pt \in DOMAIN bs : bs[pt].vertical = v /\ bs[pt].status = "active"}) <= 1

\* every registry that sequential lifecycle calls can build
Registries ==
    {bs \in {Statuses(s) : s \in [BrainIds -> BrainStatus \cup {"none"}]} :
        AtMostOneActive(bs)}

\* a stored rule: the point seed_icp_rules writes for (name, criteria)
SeededPoint(brain_id, name, criteria) ==
    LET item == [name |-> name, criteria |-> criteria, brain_id |-> ""]
    IN [payload |-> SeedPayload(brain_id, item), vector |-> embed_batch(<<criteria>>)[1]]

InsightIdOf(b) == <<"uuid", b>>

\* an insight add_insight has stored for a brain
StoredInsight(brain_id, text) ==
    LET source == [given |-> TRUE, type |-> "call_transcript", id |-> "s1"]
    IN [payload |-> InsightPayload(brain_id, text, "pain_point", "medium", source,
                        calculate_confidence("medium", source), FALSE),
        vector |-> embed_batch(<<text>>)[1]]

\* the content of a brain that holds two rules and one insight
SomeContent(S) ==
    [c \in CollectionNames |->
        IF c = "icp_rules"
        THEN [pt \in {generate_point_id(b, k) : b \in S, k \in {"k1", "k2"}} |->
                SeededPoint(pt[1], pt[2], "t1")]
        ELSE IF c = "insights"
        THEN [pt \in {InsightIdOf(b) : b \in S} |->
                StoredInsight(pt[2], IF VerticalOf(pt[2]) = "health" THEN "c2" ELSE "c1")]
        ELSE <<>>]

NoPre == [brains |-> <<>>, content |-> SomeContent({})]

\* ------------------------------------------------------------------------
\* Spec: lifecycle calls, one at a time
\* ------------------------------------------------------------------------
Init ==
    /\ brains \in Registries
    /\ \E S \in SUBSET {pt[1] : pt \in DOMAIN brains} : content = SomeContent(S)
    /\ calls = [p \in Procs |-> IdleCall]
    /\ pre = [p \in Procs |-> NoPre]
    /\ ncalls = 0
    /\ ExtIdle

Step(p) ==
    \E ok \in BOOLEAN :
        \/ update_get(p, ok)
        \/ update_scroll(p, ok)
        \/ update_embed_other(p, ok)
        \/ update_upsert_other(p, ok)
        \/ update_embed_target(p, ok)
        \/ update_upsert_target(p, ok)
        \/ create_embed(p, ok)
        \/ create_upsert(p, ok)
        \/ delete_get(p, ok)
        \/ delete_scroll(p, ok)
        \/ delete_points(p, ok)
        \/ delete_scroll_brain(p, ok)
        \/ delete_record(p, ok)
        \/ get_scroll(p, ok)
        \/ read_count(p, ok)

LifecycleCall(p) ==
    \/ \E b \in BrainIds \cup {InvalidBrainId}, s \in BrainStatus \cup {"deleted"} :
            update_brain_status(p, b, s)
    \/ \E v \in CreateVerticals, n \in {2, 3, 101}, d \in {9, 10, 501} :
            create_brain(p, v, n, d)
    \/ \E b \in BrainIds \cup {InvalidBrainId}, confirm \in BOOLEAN :
            delete_brain(p, b, confirm)
    \/ \E b \in BrainIds \cup {""}, v \in Verticals \cup {""} : get_brain(p, b, v)

Next == LifecycleCall(1) \/ Step(1) \/ Return(1)

Spec == Init /\ [][Next]_vars

\* ------------------------------------------------------------------------
\* ConcSpec: update_brain_status calls that interleave at their external calls
\* ------------------------------------------------------------------------
ConcInit ==
    /\ brains \in Registries
    /\ content = SomeContent({})
    /\ calls = [p \in Procs |-> IdleCall]
    /\ pre = [p \in Procs |-> NoPre]
    /\ ncalls = 0
    /\ ExtIdle

UpdateCall(p) ==
    \E b \in BrainIds, s \in BrainStatus : update_brain_status(p, b, s)

UpdateStep(p) ==
    \E ok \in BOOLEAN :
        \/ update_get(p, ok)
        \/ update_scroll(p, ok)
        \/ update_embed_other(p, ok)
        \/ update_upsert_other(p, ok)
        \/ update_embed_target(p, ok)
        \/ update_upsert_target(p, ok)

ConcNext == \E p \in Procs : UpdateCall(p) \/ UpdateStep(p) \/ Return(p)

ConcSpec == ConcInit /\ [][ConcNext]_vars

\* ------------------------------------------------------------------------
\* SeedSpec: seed calls, one at a time, on a store without content
\* ------------------------------------------------------------------------
\* a brain id that an item carries in a field of its own
ForeignBrain == "brain_health_1"

\* an item of tool t: key field k, embed field e, own brain_id b ("" = absent);
\* a tool whose key field is its embed field reads e for both
MkItem(t, k, e, b) ==
    [f \in {t.key_field, t.embed_field, "brain_id"} |->
        IF f = "brain_id" THEN b ELSE IF f = t.embed_field THEN e ELSE k]

\* items without a brain_id of their own: a valid one and the invalid ones
PlainItems(t) ==
    {MkItem(t, "k1", "t1", ""), MkItem(t, "", "t1", ""), MkItem(t, "k1", "", ""),
     MkItem(t, "", "", "")}

ItemsOf(t) ==
    PlainItems(t) \cup
    {MkItem(t, "k1", "t2", ""), MkItem(t, "k2", "t1", ""),
     MkItem(t, "k2", "t2", ForeignBrain)}

ShortLists(t) == UNION {[1..n -> ItemsOf(t)] : n \in 0..MaxItems}

\* the empty list and the lists of one plain item
SingleLists(t) == {<<>>} \cup {<<item>> : item \in PlainItems(t)}

\* lists that need more than one embedding chunk: keys alternate, the text
\* changes after the first chunk, and position `bad` (0 = none) is invalid
LongList(t, n, bad) ==
    [j \in 1..n |->
        IF j = bad THEN MkItem(t, "", "t1", "")
        ELSE MkItem(t, IF j % 2 = 0 THEN "k2" ELSE "k1",
                       IF j <= EMBED_BATCH_SIZE THEN "t1" ELSE "t2", "")]

LongLists(t) ==
    {LongList(t, EMBED_BATCH_SIZE + 1, 0), LongList(t, 2 * EMBED_BATCH_SIZE + 1, 0),
     LongList(t, 2 * EMBED_BATCH_SIZE + 1, 2)}

SeedInit ==
    /\ \E st \in {"draft", "active"} :
            brains = Statuses([b \in BrainIds |->
                        IF b = "brain_fintech_1" THEN st
                        ELSE IF b = "brain_fintech_2" THEN "archived" ELSE "none"])
    /\ content = SomeContent({})
    /\ calls = [p \in Procs |-> IdleCall]
    /\ pre = [p \in Procs |-> NoPre]
    /\ ncalls = 0
    /\ ExtIdle

\* seed_icp_rules on the seedable brain takes every short list and the long
\* lists; the other tools and brains take the empty and the one-item lists
SeedCall(p) ==
    \E tool \in SeedToolNames, b \in BrainIds \cup {InvalidBrainId} :
        \E items \in (IF tool = "seed_icp_rules" /\ b = "brain_fintech_1"
                      THEN ShortLists(SeedTools[tool]) \cup LongLists(SeedTools[tool])
                      ELSE SingleLists(SeedTools[tool])) :
            seed(p, tool, b, items)

SeedStep(p) ==
    \E ok \in BOOLEAN : seed_get(p, ok) \/ seed_embed(p, ok) \/ seed_upsert(p, ok)

SeedNext == SeedCall(1) \/ SeedStep(1) \/ Return(1)

SeedSpec == SeedInit /\ [][SeedNext]_vars

\* ------------------------------------------------------------------------
\* RaceSpec: delete_brain in one slot while update_brain_status or a seed
\* call runs in the other; the calls interleave at their external calls
\* ------------------------------------------------------------------------
RaceBrain == "brain_fintech_1"

RaceInit ==
    /\ \E st \in BrainStatus, sib \in {"archived", "none"} :
            brains = Statuses([b \in BrainIds |->
                        IF b = RaceBrain THEN st
                        ELSE IF b = "brain_fintech_2" THEN sib ELSE "none"])
    /\ \E S \in {{}, {RaceBrain}} : content = SomeContent(S)
    /\ calls = [p \in Procs |-> IdleCall]
    /\ pre = [p \in Procs |-> NoPre]
    /\ ncalls = 0
    /\ ExtIdle

DeleteCall(p) == delete_brain(p, RaceBrain, TRUE)

DeleteStep(p) ==
    \E ok \in BOOLEAN :
        \/ delete_get(p, ok)
        \/ delete_scroll(p, ok)
        \/ delete_points(p, ok)
        \/ delete_scroll_brain(p, ok)
        \/ delete_record(p, ok)

RaceCall(p) ==
    \/ \E b \in {RaceBrain, "brain_fintech_2"}, s \in {"active", "archived"} :
            update_brain_status(p, b, s)
    \/ seed(p, "seed_icp_rules", RaceBrain,
            <<MkItem(SeedTools["seed_icp_rules"], "k1", "t2", "")>>)

RaceNext ==
    \/ DeleteCall(1) \/ DeleteStep(1) \/ Return(1)
    \/ RaceCall(2) \/ UpdateStep(2) \/ SeedStep(2) \/ Return(2)

RaceSpec == RaceInit /\ [][RaceNext]_vars

\* ------------------------------------------------------------------------
\* InsightSpec: add_insight calls, one at a time
\* ------------------------------------------------------------------------
Sources ==
    {NoSource,
     [given |-> TRUE, type |-> "", id |-> "s1"],
     [given |-> TRUE, type |-> "manual_entry", id |-> ""],
     [given |-> TRUE, type |-> "manual_entry", id |-> "s1"],
     [given |-> TRUE, type |-> "call_transcript", id |-> "s1"]}

InsightInit ==
    /\ brains = Statuses([b \in BrainIds |->
                    IF b = "brain_fintech_1" THEN "active"
                    ELSE IF b = "brain_fintech_2" THEN "draft" ELSE "none"])
    /\ \E S \in SUBSET {"brain_fintech_1", "brain_fintech_2"} : content = SomeContent(S)
    /\ calls = [p \in Procs |-> IdleCall]
    /\ pre = [p \in Procs |-> NoPre]
    /\ ncalls = 0
    /\ ExtIdle

\* an input that passes the input validation
InsightInput(b, text, importance, source) ==
    [brain_id |-> b, content |-> text, category |-> "pain_point",
     importance |-> importance, source |-> source]

ValidInputs ==
    {InsightInput(b, text, importance, source) :
        b \in BrainIds, text \in {"c1", "c1b", "c2"}, importance \in {"low", "high"},
        source \in {s \in Sources : s.type # "" /\ s.id # ""}}

\* inputs with one field the input validation refuses
InvalidInputs ==
    LET in == InsightInput("brain_fintech_1", "c1b", "high",
                    [given |-> TRUE, type |-> "call_transcript", id |-> "s1"])
    IN {[in EXCEPT !.brain_id = InvalidBrainId]}
       \cup {[in EXCEPT !.content = text] : text \in {"tiny", "huge"}}
       \cup {[in EXCEPT !.category = "gossip"], [in EXCEPT !.importance = "urgent"]}
       \cup {[in EXCEPT !.source = s] : s \in {s \in Sources : s.type = "" \/ s.id = ""}}

InsightCall(p) ==
    \E in \in ValidInputs \cup InvalidInputs :
        add_insight(p, in.brain_id, in.content, in.category, in.importance, in.source)

InsightStep(p) ==
    \E ok \in BOOLEAN :
        \/ insight_gate_embed(p, ok)
        \/ insight_gate_query(p, ok)
        \/ insight_embed(p, ok)
        \/ insight_upsert(p, ok)

InsightNext == InsightCall(1) \/ InsightStep(1) \/ Return(1)

InsightSpec == InsightInit /\ [][InsightNext]_vars

\* ------------------------------------------------------------------------
\* ReadSpec: reads (get_brain, list_brains, get_brain_report) between writes,
\* one call at a time, on stores that hold up to a thousand and one points
\* of a brain in one collection
\* ------------------------------------------------------------------------
\* n research documents of brain b, with topics 1..n
BulkResearch(b, n) ==
    [pt \in {generate_point_id(b, j) : j \in 1..n} |->
        LET item == [topic |-> pt[2], content |-> "t1", brain_id |-> ""]
        IN [payload |-> SeedPayload(b, item), vector |-> embed_batch(<<"t1">>)[1]]]

BulkSizes == {1, STATS_SCROLL_LIMIT + 1}

ReadInit ==
    /\ brains = Statuses([b \in BrainIds |->
                    IF b = "brain_fintech_1" THEN "active"
                    ELSE IF b = "brain_health_1" THEN "draft" ELSE "none"])
    /\ \E S \in {{}, {"brain_fintech_1", "brain_health_1"}}, n \in BulkSizes :
            content = [SomeContent(S) EXCEPT
                            !["market_research"] = BulkResearch("brain_fintech_1", n)]
    /\ calls = [p \in Procs |-> IdleCall]
    /\ pre = [p \in Procs |-> NoPre]
    /\ ncalls = 0
    /\ ExtIdle

ReadCall(p) ==
    \/ \E b \in {"", "brain_fintech_1"}, v \in {"", "fintech", "health"} : get_brain(p, b, v)
    \/ list_brains(p)
    \/ \E b \in BrainIds \cup {InvalidBrainId} : get_brain_report(p, b)

WriteCall(p) ==
    \/ \E b \in {"brain_fintech_1", "brain_health_1"} :
        \E items \in SingleLists(SeedTools["seed_templates"]) :
            seed(p, "seed_templates", b, items)
    \/ \E in \in {x \in ValidInputs : x.content = "c2" /\ x.importance = "high"
                                        /\ x.brain_id # "brain_fintech_2"} :
            add_insight(p, in.brain_id, in.content, in.category, in.importance, in.source)
    \/ delete_brain(p, "brain_health_1", TRUE)

ReadStep(p) ==
    \E ok \in BOOLEAN :
        \/ get_scroll(p, ok)
        \/ list_scroll(p, ok)
        \/ read_count(p, ok)
        \/ report_get(p, ok)
        \/ report_count(p, ok)
        \/ seed_get(p, ok)
        \/ seed_embed(p, ok)
        \/ seed_upsert(p, ok)
        \/ insight_gate_embed(p, ok)
        \/ insight_gate_query(p, ok)
        \/ insight_embed(p, ok)
        \/ insight_upsert(p, ok)
        \/ delete_get(p, ok)
        \/ delete_scroll(p, ok)
        \/ delete_points(p, ok)
        \/ delete_scroll_brain(p, ok)
        \/ delete_record(p, ok)

ReadNext == ReadCall(1) \/ WriteCall(1) \/ ReadStep(1) \/ Return(1)

ReadSpec == ReadInit /\ [][ReadNext]_vars

\* ------------------------------------------------------------------------
\* TraceSpec: the lifecycle scenario create, seed, activate, create again,
\* activate the second, delete the first; each call is made when the one
\* before it has had its effect
\* ------------------------------------------------------------------------
TraceLen == 6

\* the calls of the scenario made so far; the scenario's calls are granted
\* on top of the call budget
TracePos == ncalls + TraceLen - MaxCalls

BrainsWithStatus(status) ==
    {brains[pt].id : pt \in {q \in DOMAIN brains : brains[q].status = status}}

\* two valid rules with different names and one invalid rule, in any order
TraceItems ==
    LET t == SeedTools["seed_icp_rules"]
        valid == {MkItem(t, "k1", "t1", ""), MkItem(t, "k2", "t1", "")}
    IN {items \in [1..3 -> PlainItems(t) \cup valid] :
            /\ valid \subseteq {items[j] : j \in 1..3}
            /\ \E j \in 1..3 : items[j] \notin valid}

TraceInit ==
    /\ brains = <<>>
    /\ content = SomeContent({})
    /\ calls = [p \in Procs |-> IdleCall]
    /\ pre = [p \in Procs |-> NoPre]
    /\ ncalls = MaxCalls - TraceLen
    /\ ExtIdle

TraceCall(p) ==
    \/ /\ TracePos = 0
       /\ create_brain(p, "fintech", 3, 10)
    \/ /\ TracePos = 1
       /\ \E b \in BrainsWithStatus("draft"), items \in TraceItems :
            seed(p, "seed_icp_rules", b, items)
    \/ /\ TracePos = 2
       /\ \E b \in BrainsWithStatus("draft") :
            /\ Cardinality(PointsOfBrain("icp_rules", b)) = 2
            /\ update_brain_status(p, b, "active")
    \/ /\ TracePos = 3
       /\ BrainsWithStatus("active") # {}
       /\ create_brain(p, "fintech", 3, 10)
    \/ /\ TracePos = 4
       /\ BrainsWithStatus("active") # {}
       /\ \E b \in BrainsWithStatus("draft") : update_brain_status(p, b, "active")
    \/ /\ TracePos = 5
       /\ BrainsWithStatus("active") # {}
       /\ \E b \in BrainsWithStatus("archived") : delete_brain(p, b, TRUE)

TraceStep(p) ==
    \E ok \in BOOLEAN :
        \/ update_get(p, ok)
        \/ update_scroll(p, ok)
        \/ update_embed_other(p, ok)
        \/ update_upsert_other(p, ok)
        \/ update_embed_target(p, ok)
        \/ update_upsert_target(p, ok)
        \/ create_embed(p, ok)
        \/ create_upsert(p, ok)
        \/ seed_get(p, ok)
        \/ seed_embed(p, ok)
        \/ seed_upsert(p, ok)
        \/ delete_get(p, ok)
        \/ delete_scroll(p, ok)
        \/ delete_points(p, ok)
        \/ delete_scroll_brain(p, ok)
        \/ delete_record(p, ok)

TraceNext == TraceCall(1) \/ TraceStep(1) \/ Return(1)

TraceSpec == TraceInit /\ [][TraceNext]_vars

\* ------------------------------------------------------------------------
\* RequestSpec: requests of the Attio and HeyReach clients, one at a time
\* ------------------------------------------------------------------------
RequestNext ==
    \/ \E client \in Clients : request(1, client)
    \/ \E outcome \in HttpOutcomes : request_attempt(1, outcome)
    \/ ToolReturn(1)

RequestInit ==
    /\ brains = <<>>
    /\ content = SomeContent({})
    /\ calls = [p \in Procs |-> IdleCall]
    /\ pre = [p \in Procs |-> NoPre]
    /\ ncalls = 0
    /\ ExtIdle

RequestSpec == RequestInit /\ [][RequestNext]_vars

\* ------------------------------------------------------------------------
\* AttioSpec: update_pipeline_stage and prefetch_pipeline_config calls, one
\* at a time, on a pipeline with one record
\* ------------------------------------------------------------------------
\* a status id that no list has (a status that was removed from the list)
RemovedStatusId == "status_removed"

\* a workspace whose two lists hold the record, in the default list with the
\* status st
Workspace(statuses, st) ==
    [entries |-> [e \in {<<DefaultListId, RecordInPipeline>>,
                         <<OtherListId, RecordInPipeline>>} |->
                    IF e[1] = DefaultListId THEN st ELSE "status_new"],
     statuses |-> statuses, served |-> {}, history |-> <<>>]

AttioInit ==
    /\ brains = <<>>
    /\ content = SomeContent({})
    /\ calls = [p \in Procs |-> IdleCall]
    /\ pre = [p \in Procs |-> NoPre]
    /\ ncalls = 0
    /\ \E statuses \in ListSchemas, st \in StatusIds \cup {"", RemovedStatusId} :
            attio = Workspace(statuses, st)
    /\ list_status_cache = <<>>
    /\ verticals = <<>>
    /\ tools = [p \in Procs |-> IdleTool]

\* what an HTTP attempt of a tool's request ends with
ToolOutcomes == {HttpResponse(200, ""), HttpResponse(404, ""), HttpResponse(429, "")}

AttioCall(p) ==
    \/ \E stage \in PipelineStage, list_id \in {"", OtherListId}, force \in BOOLEAN :
            update_pipeline_stage(p, RecordInPipeline, stage, list_id, force)
    \/ \E bad \in {<<ShortRecordId, "qualifying", "">>, <<RecordElsewhere, "qualifying", "">>,
                   <<RecordInPipeline, "Qualifying", "">>,
                   <<RecordInPipeline, "qualifying", ShortListId>>} :
            update_pipeline_stage(p, bad[1], bad[2], bad[3], FALSE)
    \/ \E list_id \in {"", OtherListId, ShortListId} : prefetch_pipeline_config(p, list_id)

AttioStep(p) ==
    \E outcome \in ToolOutcomes :
        \/ stage_query(p, outcome)
        \/ stage_schema(p, outcome)
        \/ stage_patch(p, outcome)
        \/ prefetch_schema(p, outcome)

AttioNext == AttioCall(1) \/ AttioStep(1) \/ ToolReturn(1)

AttioSpec == AttioInit /\ [][AttioNext]_vars

\* ------------------------------------------------------------------------
\* StageSpec: unforced update_pipeline_stage calls, one at a time, on one
\* record of the default list
\* ------------------------------------------------------------------------
StageInit ==
    /\ brains = <<>>
    /\ content = SomeContent({})
    /\ calls = [p \in Procs |-> IdleCall]
    /\ pre = [p \in Procs |-> NoPre]
    /\ ncalls = MaxCalls - MaxStageCalls
    /\ \E statuses \in ListSchemas, st \in StatusIds \cup {"", RemovedStatusId} :
            attio = [Workspace(statuses, st) EXCEPT
                        !.history = [e \in {<<DefaultListId, RecordInPipeline>>} |-> <<>>]]
    /\ list_status_cache = <<>>
    /\ verticals = <<>>
    /\ tools = [p \in Procs |-> IdleTool]

StageCall(p) ==
    \E stage \in PipelineStage : update_pipeline_stage(p, RecordInPipeline, stage, "", FALSE)

StageStep(p) ==
    \E outcome \in {HttpResponse(200, ""), HttpResponse(404, "")} :
        \/ stage_query(p, outcome)
        \/ stage_schema(p, outcome)
        \/ stage_patch(p, outcome)

StageNext == StageCall(1) \/ StageStep(1) \/ ToolReturn(1)

StageSpec == StageInit /\ [][StageNext]_vars

\* ------------------------------------------------------------------------
\* DetectSpec: detect_vertical calls, one at a time, on a stored registry
\* ------------------------------------------------------------------------
VerticalPayload(slug, is_active, industry_keywords, title_keywords, campaign_patterns,
                aliases, exclusion_keywords) ==
    [slug |-> slug, is_active |-> is_active, industry_keywords |-> industry_keywords,
     title_keywords |-> title_keywords, campaign_patterns |-> campaign_patterns,
     aliases |-> aliases, exclusion_keywords |-> exclusion_keywords]

FintechVertical(is_active) ==
    VerticalPayload(<<"f">>, is_active, << <<"F">> >>, << <<"t">> >>, << <<"f", "*">> >>,
                    << <<"f", "n">> >>, << <<"x">> >>)

HealthVertical ==
    VerticalPayload(<<"h">>, TRUE, << <<"h">> >>, << <<"t">>, <<"h">> >>,
                    << <<"?", "h">> >>, <<>>, <<>>)

VerticalRegistries ==
    {<<>>, <<FintechVertical(FALSE)>>, <<FintechVertical(TRUE)>>,
     <<FintechVertical(TRUE), HealthVertical>>, <<HealthVertical, FintechVertical(TRUE)>>}

DetectInit ==
    /\ brains = <<>>
    /\ content = SomeContent({})
    /\ calls = [p \in Procs |-> IdleCall]
    /\ pre = [p \in Procs |-> NoPre]
    /\ ncalls = 0
    /\ attio = NoAttio
    /\ list_status_cache = <<>>
    /\ verticals \in VerticalRegistries
    /\ tools = [p \in Procs |-> IdleTool]

DetectCall(p) ==
    \E industry \in {<<>>, <<"F">>, <<"h">>, <<"f", "x">>, <<"z">>},
       title \in {<<>>, <<"T">>, <<"z">>},
       campaign_id \in {<<>>, <<"F", "z">>, <<"z", "h">>, <<"z">>},
       vertical \in {<<>>, <<" ">>, <<"F", "N">>, <<"z">>},
       use_ai_fallback \in BOOLEAN :
        detect_vertical(p, industry, title, campaign_id, vertical, use_ai_fallback)

DetectNext ==
    \/ DetectCall(1)
    \/ \E ok \in BOOLEAN : detect_scroll(1, ok)
    \/ ToolReturn(1)

DetectSpec == DetectInit /\ [][DetectNext]_vars

\* ------------------------------------------------------------------------
\* ConcInsightSpec: add_insight calls for one brain that run concurrently
\* ------------------------------------------------------------------------
ConcInsightCall(p) ==
    \E text \in {"c1b", "c2"}, importance \in {"low", "high"} :
        add_insight(p, "brain_fintech_1", text, "pain_point", importance,
                    [given |-> TRUE, type |-> "call_transcript", id |-> "s1"])

ConcInsightNext == \E p \in Procs : ConcInsightCall(p) \/ InsightStep(p) \/ Return(p)

ConcInsightSpec == InsightInit /\ [][ConcInsightNext]_vars

\* ------------------------------------------------------------------------
\* RepairSpec: one activation at a time on a vertical that holds several
\* active brains (what concurrent activations leave behind)
\* ------------------------------------------------------------------------
\* the brains of fintech that are active when the behaviour starts
ActiveSiblings ==
    <<"brain_fintech_1", "brain_fintech_3", "brain_fintech_4", "brain_fintech_5",
      "brain_fintech_6", "brain_fintech_7", "brain_fintech_8", "brain_fintech_9",
      "brain_fintech_10", "brain_fintech_11", "brain_fintech_12">>

\* the stored record of a brain
BrainRecord(b, status) == [id |-> b, vertical |-> VerticalOf(b), status |-> status]

RepairInit ==
    /\ \E n \in {2, 10, Len(ActiveSiblings)}, target_status \in {"draft", "archived"} :
        LET active == {ActiveSiblings[j] : j \in 1..n} \cup {"brain_health_1"}
        IN brains = [pt \in {generate_point_id(b, b) : b \in active \cup {"brain_fintech_2"}} |->
                        BrainRecord(pt[1], IF pt[1] \in active THEN "active"
                                           ELSE target_status)]
    /\ content = SomeContent({})
    /\ calls = [p \in Procs |-> IdleCall]
    /\ pre = [p \in Procs |-> NoPre]
    /\ ncalls = 0
    /\ ExtIdle

RepairCall(p) == update_brain_status(p, "brain_fintech_2", "active")

RepairNext == RepairCall(1) \/ UpdateStep(1) \/ Return(1)

RepairSpec == RepairInit /\ [][RepairNext]_vars

\* ------------------------------------------------------------------------
\* Properties
\* ------------------------------------------------------------------------
LegalTransitions ==
    {<<"draft", "active">>, <<"active", "archived">>, <<"archived", "active">>}

LegalTargets(current) == {t \in BrainStatus : <<current, t>> \in LegalTransitions}

\* the status a brain had when the call of slot p arrived ("" if it had no record)
PreStatus(p, b) ==
    IF generate_point_id(b, b) \in DOMAIN pre[p].brains
    THEN pre[p].brains[generate_point_id(b, b)].status
    ELSE ""

StatusNow(b) ==
    IF generate_point_id(b, b) \in DOMAIN brains
    THEN brains[generate_point_id(b, b)].status
    ELSE ""

StoreUntouched(p) == brains = pre[p].brains /\ content = pre[p].content

\* C1: an update_brain_status call for an existing brain whose (current,
\* requested) pair is not draft->active, active->archived or
\* archived->active never reaches a write; once its read of the brain has
\* returned it has ended with an error that names the attempted transition
\* and lists exactly the legal targets of the current status, and the store
\* is as it was when the call arrived.
C1_IllegalTransitionRejected ==
    \A p \in Procs :
        LET c == calls[p] IN
        (/\ c.op = "update"
         /\ c.status \in BrainStatus
         /\ PreStatus(p, c.brain_id) # ""
         /\ <<PreStatus(p, c.brain_id), c.status>> \notin LegalTransitions)
        => /\ c.pc \in {"u_get", "done"}
           /\ c.nWrite = 0
           /\ StoreUntouched(p)
           /\ c.pc = "done" =>
                /\ c.res.status = "error"
                /\ \/ c.res.error = "store_error"
                   \/ /\ c.res.error = "invalid_transition"
                      /\ c.res.from = PreStatus(p, c.brain_id)
                      /\ c.res.to = c.status
                      /\ c.res.targets = LegalTargets(PreStatus(p, c.brain_id))

\* C1 witness: activating an active brain has been rejected
C1_Witness ==
    \E p \in Procs :
        /\ calls[p].op = "update" /\ calls[p].pc = "done"
        /\ calls[p].res.error = "invalid_transition"
        /\ calls[p].res.from = "active" /\ calls[p].res.to = "active"
        /\ calls[p].res.targets = {"archived"}

\* C2: with calls running one at a time from a registry with at most one
\* active brain per vertical, every state has at most one active brain per
\* vertical; and when update_brain_status(B2, active) has succeeded, B2 is
\* active, every brain of the vertical that was active before is archived
\* and no other brain of the vertical is active.
C2_SingleActiveSequential ==
    /\ AtMostOneActive(brains)
    /\ \A p \in Procs :
        LET c == calls[p] IN
        (c.op = "update" /\ c.pc = "done" /\ c.res.status = "ok" /\ c.status = "active")
        => /\ StatusNow(c.brain_id) = "active"
           /\ \A b \in BrainIds \ {c.brain_id} :
                VerticalOf(b) = VerticalOf(c.brain_id) =>
                    /\ StatusNow(b) # "active"
                    /\ PreStatus(p, b) = "active" => StatusNow(b) = "archived"

\* C2 witness: an activation that succeeded while a sibling was active
C2_Witness ==
    \E p \in Procs :
        /\ calls[p].op = "update" /\ calls[p].pc = "done"
        /\ calls[p].res.status = "ok" /\ calls[p].status = "active"
        /\ \E b \in BrainIds \ {calls[p].brain_id} :
            /\ PreStatus(p, b) = "active"
            /\ VerticalOf(b) = VerticalOf(calls[p].brain_id)
            /\ StatusNow(b) = "archived"

\* the brains of the target's vertical, other than the target, that were
\* active when the call of slot p arrived
ActiveSiblingsBefore(p) ==
    {pl.id : pl \in {r \in {pre[p].brains[pt] : pt \in DOMAIN pre[p].brains} :
                        /\ r.id # calls[p].brain_id
                        /\ r.status = "active"
                        /\ r.vertical = calls[p].vertical}}

\* C25: a successful update_brain_status call reports as
\* deactivated_brain_id the brain its cascade archived: the field is empty
\* exactly when the new status is not active or no other brain of the
\* target's vertical was active when the call arrived; otherwise it is that
\* brain, which is now archived; it is never the target itself.
C25_DeactivatedReported ==
    \A p \in Procs :
        LET c == calls[p] IN
        (c.op = "update" /\ c.pc = "done" /\ c.res.status = "ok")
        => /\ c.res.deactivated_brain_id # c.brain_id
           /\ (c.res.deactivated_brain_id = "")
                <=> (c.status # "active" \/ ActiveSiblingsBefore(p) = {})
           /\ c.res.deactivated_brain_id # "" =>
                /\ ActiveSiblingsBefore(p) = {c.res.deactivated_brain_id}
                /\ StatusNow(c.res.deactivated_brain_id) = "archived"

\* C25 witness: an activation that reports the sibling it archived
C25_Witness ==
    \E p \in Procs :
        /\ calls[p].op = "update" /\ calls[p].pc = "done"
        /\ calls[p].res.status = "ok" /\ calls[p].status = "active"
        /\ calls[p].res.deactivated_brain_id \in ActiveSiblingsBefore(p)
        /\ PreStatus(p, calls[p].res.deactivated_brain_id) = "active"
        /\ StatusNow(calls[p].res.deactivated_brain_id) = "archived"

\* C27: the cascade of an activation is all-or-nothing: while an
\* update_brain_status(B2, active) call has not ended successfully no stored
\* brain status differs from what it was when the call arrived, in
\* particular when the call has ended with an error.
C27_CascadeAllOrNothing ==
    \A p \in Procs :
        LET c == calls[p] IN
        (c.op = "update" /\ c.status = "active" /\ c.pc = "done"
            /\ c.res.status = "error")
        => \A b \in BrainIds : StatusNow(b) = PreStatus(p, b)

\* the content points scoped to brain b, over all content collections
ContentOf(b) ==
    UNION {{<<name, pt>> : pt \in PointsOfBrain(name, b)} : name \in CollectionNames}

\* C28: no brain is destroyed while active, also when delete_brain(B) and
\* update_brain_status(B, active) interleave at their external calls: no
\* step removes a content point of, or the record of, a brain whose stored
\* status is active when the step is taken.
C28_NoActiveBrainDestroyed ==
    [][\A b \in BrainIds :
            StatusNow(b) = "active" =>
                /\ generate_point_id(b, b) \in DOMAIN brains'
                /\ ContentOf(b) \subseteq ContentOf(b)']_vars

\* C29: deletion is final: while the successful result of delete_brain(B)
\* is held, B has no record in the brains collection, whatever an
\* update_brain_status call that was in flight during the deletion does.
C29_DeletionFinal ==
    \A p \in Procs :
        (calls[p].op = "delete" /\ calls[p].pc = "done" /\ calls[p].res.status = "ok")
        => StatusNow(calls[p].brain_id) = ""

\* C30: content is never written to a brain that is archived or deleted at
\* the moment of the write, also when the seed call interleaves with
\* update_brain_status(B, archived) or delete_brain(B): the step in which a
\* seed call upserts its points is taken only while the brain's stored
\* status is draft or active.
C30_NoWriteToArchivedOrDeleted ==
    [][\A p \in Procs :
            (/\ calls[p].op = "seed" /\ calls[p].pc = "s_upsert"
             /\ content' # content)
            => StatusNow(calls[p].brain_id) \in {"draft", "active"}]_vars

\* the edges of the pipeline stage graph
StageEdges ==
    {<<"new_reply", "qualifying">>, <<"qualifying", "meeting_scheduled">>,
     <<"meeting_scheduled", "meeting_held">>, <<"meeting_held", "proposal">>,
     <<"proposal", "closed_won">>}
    \cup {<<s, "closed_lost">> : s \in PipelineStage \ {"closed_won", "closed_lost"}}

\* the list entry the update_pipeline_stage call of slot p is about
EntryOf(p) == <<PipelineListId(tools[p].list_id), tools[p].record_id>>

\* the stage the record was in when the call of slot p arrived: the name the
\* list gives to the entry's status ("" if the entry has no status, or one
\* the list does not name)
StageBefore(p) ==
    IF EntryOf(p) \in DOMAIN tools[p].before
    THEN CurrentStage(StatusMapping(attio.statuses), tools[p].before[EntryOf(p)])
    ELSE ""

\* C21: an unforced update_pipeline_stage call on a record whose current
\* stage is known succeeds only if (current, target) is an edge of the stage
\* graph; for any other pair no PATCH is sent and the entry keeps its status,
\* and once the entry and the list's statuses have been read the call has
\* ended with the invalid-transition error; so a record in closed_won or
\* closed_lost keeps its stage.
C21_UnforcedTransitionsFollowEdges ==
    \A p \in Procs :
        LET c == tools[p] IN
        (c.op = "update_stage" /\ ~c.force /\ StageBefore(p) # "")
        => /\ (c.pc = "done" /\ c.res.status = "ok")
                => <<StageBefore(p), c.stage>> \in StageEdges
           /\ <<StageBefore(p), c.stage>> \notin StageEdges
                => /\ c.nPatch = 0
                   /\ c.pc # "u_patch"
                   /\ attio.entries = c.before
                   /\ (/\ c.pc = "done" /\ c.stage \in PipelineStage
                       /\ c.attempts # <<>>
                       /\ RetryDecision("attio", c.attempts) = "return")
                      => c.res.error = "invalid_transition"
           /\ StageBefore(p) \in {"closed_won", "closed_lost"}
                => attio.entries = c.before

\* C21 witness: an unforced move out of closed_won has been refused
C21_Witness ==
    \E p \in Procs :
        /\ tools[p].op = "update_stage" /\ ~tools[p].force
        /\ StageBefore(p) = "closed_won" /\ tools[p].stage = "closed_lost"
        /\ tools[p].pc = "done" /\ tools[p].res.error = "invalid_transition"
        /\ tools[p].nPatch = 0

\* an attempt that got an answer below 400
AttemptSucceeded(outcome) == outcome.kind = "response" /\ outcome.status_code < 400

\* an attempt that failed in a way the clients retry: 429, 5xx, a timeout or
\* a network error
RetriableFailure(outcome) ==
    \/ outcome.kind \in {"timeout", "network"}
    \/ /\ outcome.kind = "response"
       /\ \/ outcome.status_code = 429
          \/ outcome.status_code >= 500 /\ outcome.status_code < 600

FetchingSchema(list_id) ==
    {p \in Procs : /\ tools[p].pc \in {"u_schema", "f_schema"}
                   /\ tools[p].pipeline_list_id = list_id}

\* C23, in every state: the cache has an entry for exactly the list ids
\* whose schema Attio has served (a fetch that fails leaves no entry); a
\* prefetch_pipeline_config call that has returned reports cached = true
\* exactly if the list's schema had been served before the call arrived,
\* and then it has requested nothing; no call waits for the schema of a
\* cached list.
CacheMatchesFetches ==
    /\ DOMAIN list_status_cache = attio.served
    /\ \A l \in DOMAIN list_status_cache : FetchingSchema(l) = {}
    /\ \A p \in Procs :
        LET c == tools[p] IN
        (c.op = "prefetch" /\ c.pc = "done" /\ c.res.status = "ok")
        => /\ c.res.cached <=> (c.pipeline_list_id \in c.served_before)
           /\ c.res.cached => c.nSchema = 0 /\ c.attempts = <<>>
           /\ c.res.stages = DOMAIN list_status_cache[c.pipeline_list_id]

\* C23, in every step: a list id that is cached stays cached with the same
\* mapping, and no call requests its schema
CacheEntryStays ==
    \A l \in DOMAIN list_status_cache :
        /\ l \in DOMAIN list_status_cache'
        /\ list_status_cache'[l] = list_status_cache[l]
        /\ \A p \in Procs :
                tools[p].pipeline_list_id = l \/ tools'[p].pipeline_list_id = l
                => tools'[p].nSchema <= tools[p].nSchema

\* C23: prefetch_pipeline_config reports cached = false exactly when the
\* list's status mapping has not been fetched successfully before, and true
\* on every later call; once a list id is cached neither tool fetches its
\* schema again and the cached mapping never changes; a fetch that fails
\* leaves the cache without an entry for the list id.
C23_CacheFilledOnce == []CacheMatchesFetches /\ [][CacheEntryStays]_vars

\* C23 witness: prefetch_pipeline_config has answered from the cache that an
\* earlier call filled
C23_Witness ==
    \E p \in Procs :
        /\ tools[p].op = "prefetch" /\ tools[p].pc = "done"
        /\ tools[p].res.status = "ok" /\ tools[p].res.cached
        /\ tools[p].nSchema = 0
        /\ tools[p].pipeline_list_id \in attio.served

\* the vertical a keyword of a payload field leads to: the last result listing it
KeywordOwner(results, field, kw) ==
    LET listing == {j \in 1..Len(results) :
                       \E k \in 1..Len(results[j][field]) : Lower(results[j][field][k]) = kw}
    IN results[CHOOSE j \in listing : \A k \in listing : k <= j].slug

\* the lowered keywords of a payload field over the results
Keywords(results, field) ==
    UNION {{Lower(results[j][field][k]) : k \in 1..Len(results[j][field])} :
              j \in 1..Len(results)}

\* the steps of the waterfall that match for the call of slot p
MatchingSteps(p) ==
    LET c == tools[p]
        results == ActiveVerticals
    IN (IF c.industry # <<>>
           /\ \E kw \in Keywords(results, "industry_keywords") :
                 IndustryHit(results, Lower(c.industry),
                             <<kw, KeywordOwner(results, "industry_keywords", kw)>>)
        THEN {"industry"} ELSE {})
       \cup
       (IF c.campaign_id # <<>>
           /\ \E kw \in Keywords(results, "campaign_patterns") :
                 GlobMatch(kw, Lower(c.campaign_id))
        THEN {"campaign"} ELSE {})
       \cup
       (IF c.title # <<>>
           /\ \E kw \in Keywords(results, "title_keywords") :
                 Contains(Lower(c.title), kw)
        THEN {"title"} ELSE {})

\* the method and the confidence (in tenths) the documented priority gives
ExpectedMethod(p) ==
    IF tools[p].vertical # <<>> /\ ~IsBlank(tools[p].vertical) THEN <<"explicit", 10>>
    ELSE IF "industry" \in MatchingSteps(p) THEN <<"industry", 9>>
    ELSE IF "campaign" \in MatchingSteps(p) THEN <<"campaign", 7>>
    ELSE IF "title" \in MatchingSteps(p) THEN <<"title", 5>>
    ELSE <<"default", 1>>

\* C24: a detect_vertical call that returns a result follows the documented
\* priority: explicit (1.0) whenever the vertical argument is not blank,
\* whatever the other inputs and the stored verticals; otherwise the first
\* of industry keyword (0.9), campaign pattern (0.7), title keyword (0.5)
\* that matches; the default (0.1) only when none matches.
C24_WaterfallPriority ==
    \A p \in Procs :
        (tools[p].op = "detect" /\ tools[p].pc = "done" /\ tools[p].res.status = "ok")
        => <<tools[p].res.method, tools[p].res.confidence>> = ExpectedMethod(p)

\* C3: at most one brain per vertical is active in every state of every
\* interleaving of concurrent update_brain_status calls.
C3_SingleActiveConcurrent == AtMostOneActive(brains)

\* number of points scoped to brain b in the five content collections of a store
RECURSIVE SumCounts(_, _)
SumCounts(f, n) ==
    IF n = 0 THEN 0 ELSE f[ContentCollections[n]] + SumCounts(f, n - 1)

PointCounts(cont, b) ==
    [c \in CollectionNames |->
        Cardinality({pt \in DOMAIN cont[c] : cont[c][pt].payload.brain_id = b})]

TotalPoints(cont, b) == SumCounts(PointCounts(cont, b), Len(ContentCollections))

\* C4: delete_brain(b, confirm = true) on an active brain fails and removes
\* nothing; on a draft or archived brain it succeeds (unless it reports a
\* store failure), the brain record is gone and the reported counts sum to
\* the number of points scoped to the brain before the call.
C4_DeletionGuard ==
    \A p \in Procs :
        LET c == calls[p] IN
        (c.op = "delete" /\ c.confirm /\ c.pc = "done")
        => /\ PreStatus(p, c.brain_id) = "active" =>
                c.res.status = "error" /\ StoreUntouched(p)
           /\ PreStatus(p, c.brain_id) \in {"draft", "archived"} =>
                \/ c.res.status = "error" /\ c.res.error \in {"store_error", "delete_record_failed"}
                \/ /\ c.res.status = "ok"
                   /\ StatusNow(c.brain_id) = ""
                   /\ SumCounts(c.res.deleted_content, Len(ContentCollections))
                        = TotalPoints(pre[p].content, c.brain_id)

\* C5: delete_brain without confirm ends at once with an error, whatever the
\* brain id names, without any store or embedding call, and the store is as
\* it was.
C5_ConfirmRequired ==
    \A p \in Procs :
        LET c == calls[p] IN
        (c.op = "delete" /\ ~c.confirm)
        => /\ c.pc = "done"
           /\ c.res.status = "error" /\ c.res.error = "confirm_required"
           /\ c.nRead = 0 /\ c.nWrite = 0 /\ c.nEmbed = 0
           /\ StoreUntouched(p)

\* C5 witness: an unconfirmed delete of a draft brain that holds content
C5_Witness ==
    \E p \in Procs :
        /\ calls[p].op = "delete" /\ ~calls[p].confirm /\ calls[p].pc = "done"
        /\ StatusNow(calls[p].brain_id) = "draft"
        /\ TotalPoints(content, calls[p].brain_id) > 0

\* the tool, the target collection and the items of the seed call of slot p
ToolOf(p) == SeedTools[calls[p].tool]

LacksEmbed(p, x) == Get(calls[p].items[x], ToolOf(p).embed_field) = ""

LacksKey(p, x) == Get(calls[p].items[x], ToolOf(p).key_field) = ""

InvalidPositions(p) == {x \in 1..Len(calls[p].items) : LacksEmbed(p, x) \/ LacksKey(p, x)}

SeedReturned(p) ==
    calls[p].op = "seed" /\ calls[p].pc = "done" /\ calls[p].res.status = "ok"

\* C6: a seed call on a seedable brain that returns a result for N items of
\* which M lack the embed field or the key field reports seeded_count = N - M
\* and exactly M errors: one per invalid item, in input order, with the
\* item's original (0-based) index, naming the embed field when it is
\* missing and otherwise the key field.
C6_PartialFailure ==
    \A p \in Procs :
        (SeedReturned(p) /\ PreStatus(p, calls[p].brain_id) \in {"draft", "active"})
        => LET r == calls[p].res
               bad == InvalidPositions(p)
           IN /\ r.seeded_count = Len(calls[p].items) - Cardinality(bad)
              /\ Len(r.errors) = Cardinality(bad)
              /\ \A x \in bad : \E j \in 1..Len(r.errors) :
                    /\ r.errors[j].index = x - 1
                    /\ r.errors[j].error = IF LacksEmbed(p, x) THEN ToolOf(p).embed_field
                                           ELSE ToolOf(p).key_field
              /\ \A j \in 1..Len(r.errors) : r.errors[j].index + 1 \in bad
              /\ \A j, k \in 1..Len(r.errors) : j < k => r.errors[j].index < r.errors[k].index

\* C6 witness: a result with one item seeded and one error, for an item that
\* lacks both fields
C6_Witness ==
    \E p \in Procs :
        /\ SeedReturned(p)
        /\ calls[p].res.seeded_count = 1
        /\ Len(calls[p].res.errors) = 1
        /\ \E x \in 1..Len(calls[p].items) : LacksEmbed(p, x) /\ LacksKey(p, x)
        /\ ToolOf(p).embed_field # ToolOf(p).key_field

ValidPositions(p) == (1..Len(calls[p].items)) \ InvalidPositions(p)

KeyAt(p, x) == Get(calls[p].items[x], ToolOf(p).key_field)

\* the points of a collection that are scoped to brain b and carry key k
PointsWithKey(coll, b, key_field, k) ==
    {pt \in DOMAIN coll :
        coll[pt].payload.brain_id = b /\ Get(coll[pt].payload.item, key_field) = k}

KeysOfBrain(coll, b, key_field) ==
    {Get(coll[pt].payload.item, key_field) :
        pt \in {q \in DOMAIN coll : coll[q].payload.brain_id = b}}

\* C7: after a seed call has returned, every key it seeded has exactly one
\* stored point scoped to the brain in the collection, carrying the item
\* that came last for that key; and the number of points scoped to the brain
\* equals the number of distinct keys seeded so far.
C7_IdempotentSeeding ==
    \A p \in Procs :
        SeedReturned(p)
        => LET b == calls[p].brain_id
               coll == content[ToolOf(p).collection]
               before == pre[p].content[ToolOf(p).collection]
               kf == ToolOf(p).key_field
           IN /\ \A x \in ValidPositions(p) :
                    LET same == {y \in ValidPositions(p) : KeyAt(p, y) = KeyAt(p, x)}
                        pts == PointsWithKey(coll, b, kf, KeyAt(p, x))
                    IN /\ Cardinality(pts) = 1
                       /\ \A pt \in pts :
                            \E y \in same : /\ \A z \in same : z <= y
                                             /\ coll[pt].payload.item = calls[p].items[y]
              /\ Cardinality(KeysOfBrain(coll, b, kf))
                    = Cardinality(KeysOfBrain(before, b, kf)
                                  \cup {KeyAt(p, x) : x \in ValidPositions(p)})
              /\ Cardinality({pt \in DOMAIN coll : coll[pt].payload.brain_id = b})
                    = Cardinality(KeysOfBrain(coll, b, kf))

\* C8: a seed call whose brain does not exist or is archived makes no
\* embedding call and no store write and ends with an error, whatever the
\* list of items, the empty list included.
C8_SeedPreconditions ==
    \A p \in Procs :
        (calls[p].op = "seed" /\ PreStatus(p, calls[p].brain_id) \in {"", "archived"})
        => /\ calls[p].nEmbed = 0
           /\ calls[p].nWrite = 0
           /\ calls[p].pc = "done" => calls[p].res.status = "error"

\* number of chunks the valid items of the seed call of slot p need
ChunksNeeded(p) ==
    (Cardinality(ValidPositions(p)) + EMBED_BATCH_SIZE - 1) \div EMBED_BATCH_SIZE

\* the embedding the provider returns for one text
EmbeddingOf(text) == embed_batch(<<text>>)[1]

\* the valid positions of the seed call of slot p that no later valid
\* position repeats the key of
LastForKey(p) ==
    {x \in ValidPositions(p) :
        \A y \in ValidPositions(p) : KeyAt(p, y) = KeyAt(p, x) => y <= x}

\* C26: in a seed call the texts of the valid items reach the provider in
\* consecutive chunks of at most 100, in input order and one chunk per
\* request: after n answered requests the embeddings held are those of the
\* first min(100 n, valid) valid items, the i-th for the i-th; and after the
\* call has returned, the point stored for each valid item carries that item
\* and the embedding of that item's embed-field text.
C26_EmbeddingsAligned ==
    \A p \in Procs :
        LET c == calls[p] IN
        c.op = "seed" =>
        LET t == ToolOf(p)
            v == ValidItems(c.items, t, Len(c.items))
            emb == c.all_embeddings
            answered == c.nEmbed - (IF c.provider_failed THEN 1 ELSE 0)
        IN /\ c.nEmbed <= ChunksNeeded(p)
           /\ Len(emb) = IF EMBED_BATCH_SIZE * answered < Len(v)
                         THEN EMBED_BATCH_SIZE * answered ELSE Len(v)
           /\ ~c.provider_failed /\ c.nEmbed > 0 =>
                \A j \in 1..Len(emb) :
                    emb[j] = EmbeddingOf(Get(c.items[v[j]], t.embed_field))
           /\ SeedReturned(p) /\ c.nWrite > 0 =>
                \A x \in LastForKey(p) :
                    LET id == generate_point_id(c.brain_id, KeyAt(p, x))
                        coll == content[t.collection]
                    IN /\ id \in DOMAIN coll
                       /\ coll[id].payload.item = c.items[x]
                       /\ coll[id].vector = EmbeddingOf(Get(c.items[x], t.embed_field))

\* C26 witness: a seed call has returned after two chunks for a list with
\* an invalid item among the valid ones
C26_Witness ==
    \E p \in Procs :
        /\ SeedReturned(p)
        /\ calls[p].nEmbed = 2 /\ calls[p].nWrite = 1
        /\ \E x \in ValidPositions(p), y \in InvalidPositions(p) : y < x
        /\ Len(calls[p].all_embeddings) = Cardinality(ValidPositions(p))
        /\ Cardinality(ValidPositions(p)) > EMBED_BATCH_SIZE

\* C9: once the embedding provider has failed on a chunk of a seed call, the
\* call has ended with the embedding error, the failing chunk is the last
\* one that was sent, and nothing has been written: the store is as it was
\* when the call arrived.
C9_EmbeddingFailureAborts ==
    \A p \in Procs :
        (calls[p].op = "seed" /\ calls[p].provider_failed)
        => /\ calls[p].pc = "done"
           /\ calls[p].res.status = "error" /\ calls[p].res.error = "embedding_failed"
           /\ Len(calls[p].all_embeddings) = EMBED_BATCH_SIZE * (calls[p].nEmbed - 1)
           /\ calls[p].nWrite = 0
           /\ StoreUntouched(p)

\* C9 witness: the provider failed on the second of three chunks
C9_Witness ==
    \E p \in Procs :
        /\ calls[p].op = "seed" /\ calls[p].provider_failed /\ calls[p].pc = "done"
        /\ calls[p].nEmbed = 2
        /\ ChunksNeeded(p) = 3

\* C10: when the quality gate has reported a duplicate for an add_insight
\* call, the call writes nothing and ends with status duplicate and the id
\* of the existing insight the gate named; the insights collection is as it
\* was when the call arrived.
C10_DuplicateLeavesStoreUnchanged ==
    \A p \in Procs :
        (calls[p].op = "insight" /\ calls[p].gate.ran /\ calls[p].gate.is_duplicate)
        => /\ calls[p].pc = "done"
           /\ calls[p].res.status = "duplicate"
           /\ calls[p].res.existing_id = calls[p].gate.duplicate_id
           /\ calls[p].res.existing_id \in DOMAIN pre[p].content["insights"]
           /\ calls[p].nWrite = 0
           /\ content["insights"] = pre[p].content["insights"]

\* C10 witness: a text similar to, but not the same as, a stored insight of
\* the brain came back as a duplicate of that insight
C10_Witness ==
    \E p \in Procs :
        /\ calls[p].op = "insight" /\ calls[p].pc = "done"
        /\ calls[p].res.status = "duplicate"
        /\ calls[p].content = "c1b"
        /\ calls[p].res.existing_id = InsightIdOf(calls[p].brain_id)

\* C11: add_insight writes to the insights collection if and only if the
\* quality gate accepts. A call that wrote had an accepting gate result; a
\* created call added exactly one point under an id that was not stored,
\* holding the submitted content, and left every stored insight as it was;
\* a duplicate or rejected verdict ends the call with that status as a
\* result, not an error, and writes nothing.
C11_WritesIffAccepted ==
    \A p \in Procs :
        calls[p].op = "insight" =>
            LET c == calls[p]
                before == pre[p].content["insights"]
                now == content["insights"]
            IN /\ c.nWrite > 0 => (c.gate.ran /\ c.gate.passed)
               /\ (c.gate.ran /\ ~c.gate.passed) =>
                    /\ c.pc = "done"
                    /\ c.res.status \in {"duplicate", "rejected"}
                    /\ c.res.reason # ""
                    /\ c.nWrite = 0
                    /\ now = before
               /\ c.res.status = "created" =>
                    /\ c.gate.passed
                    /\ c.res.id \notin DOMAIN before
                    /\ DOMAIN now = DOMAIN before \cup {c.res.id}
                    /\ \A pt \in DOMAIN before : now[pt] = before[pt]
                    /\ now[c.res.id].payload.content = c.content
                    /\ now[c.res.id].payload.brain_id = c.brain_id
               /\ c.res.status # "created" => now = before

\* C11 witness: an insight was created for a brain that already held one
C11_Witness ==
    \E p \in Procs :
        /\ calls[p].op = "insight" /\ calls[p].pc = "done"
        /\ calls[p].res.status = "created"
        /\ InsightIdOf(calls[p].brain_id) \in DOMAIN pre[p].content["insights"]

\* C20: an add_insight call whose content is shorter than 10 characters ends
\* with the structured result rejected and a reason, not with an error, and
\* writes nothing.
C20_ShortContentRejected ==
    \A p \in Procs :
        (calls[p].op = "insight" /\ ContentLen(calls[p].content) < 10
            /\ validate_brain_id(calls[p].brain_id)) =>
            /\ calls[p].res.status # "error"
            /\ calls[p].pc = "done" =>
                    (calls[p].res.status = "rejected" /\ calls[p].res.reason # "")
            /\ content["insights"] = pre[p].content["insights"]

\* C16: whenever delete_brain returns success, no point scoped to the brain
\* remains in any of the five content collections, and the count reported for
\* each collection is the number of the brain's points removed from it; a
\* store failure in the cascade does not end in a success.
C16_CascadeFailureReported ==
    \A p \in Procs :
        LET c == calls[p] IN
        (c.op = "delete" /\ c.pc = "done" /\ c.res.status = "ok")
        => \A coll \in CollectionNames :
              /\ PointsOfBrain(coll, c.brain_id) = {}
              /\ c.res.deleted_content[coll]
                    = PointCounts(pre[p].content, c.brain_id)[coll]
                        - PointCounts(content, c.brain_id)[coll]

\* C17: after a seed call for brain B has returned, every point it wrote
\* carries payload brain_id = B, whatever fields its item has.
C17_SeededPointsScoped ==
    \A p \in Procs :
        SeedReturned(p)
        => \A x \in ValidPositions(p) :
              LET coll == content[ToolOf(p).collection]
                  pt == generate_point_id(calls[p].brain_id, KeyAt(p, x))
              IN pt \in DOMAIN coll /\ coll[pt].payload.brain_id = calls[p].brain_id

\* the stored brain record with the given id, as update_brain_status and
\* delete_brain find it; NoData when there is none
RecordById(registry, brain_id) ==
    IF \E pt \in DOMAIN registry : registry[pt].id = brain_id
    THEN registry[CHOOSE pt \in DOMAIN registry : registry[pt].id = brain_id]
    ELSE NoData

\* C13: get_brain(brain_id) for a stored brain returns that brain's record,
\* the one update_brain_status and delete_brain find by id, and not None.
C13_GetBrainFindsCreated ==
    \A p \in Procs :
        LET c == calls[p] IN
        (c.op = "get" /\ c.brain_id # "" /\ c.pc = "done" /\ c.res.status = "ok"
            /\ RecordById(brains, c.brain_id) # NoData)
        => /\ c.res.found
           /\ Len(c.res.brains) = 1
           /\ c.res.brains[1].brain_id = c.brain_id
           /\ c.res.brains[1].vertical = RecordById(brains, c.brain_id).vertical
           /\ c.res.brains[1].status = RecordById(brains, c.brain_id).status

\* the entries of a finished get_brain or list_brains call
ReadEntries(p) == {calls[p].res.brains[j] : j \in DOMAIN calls[p].res.brains}

ReadReturned(p) ==
    calls[p].op \in {"get", "list"} /\ calls[p].pc = "done" /\ calls[p].res.status = "ok"

\* C12: the stats get_brain and list_brains return for a brain equal, for
\* each of the five content collections whose count query did not fail, the
\* number of points stored with that brain_id, however many there are.
C12_StatsAreLiveCounts ==
    \A p \in Procs :
        ReadReturned(p) =>
            \A e \in ReadEntries(p) : \A coll \in CollectionNames :
                <<e.brain_id, coll>> \notin calls[p].failed
                    => e.stats[coll] = Cardinality(PointsOfBrain(coll, e.brain_id))

\* C19: a read in which the count query of a collection failed still
\* succeeds and returns the brain; that collection's count is 0 and the
\* counts of the other collections are the numbers of points stored.
C19_CountFailureIsolated ==
    \A p \in Procs :
        (calls[p].op \in {"get", "list"} /\ calls[p].failed # {}) =>
            /\ calls[p].res.status # "error"
            /\ calls[p].pc = "done" =>
                /\ calls[p].res.found
                /\ Len(calls[p].res.brains) = Len(calls[p].results)
                /\ \A e \in ReadEntries(p) : \A coll \in CollectionNames :
                        e.stats[coll] =
                            IF <<e.brain_id, coll>> \in calls[p].failed THEN 0
                            ELSE Cardinality(PointsOfBrain(coll, e.brain_id))

\* C18: the completeness get_brain_report returns is the number of the four
\* seedable collections that hold at least one point scoped to the brain, out
\* of four; insights do not count.
C18_Completeness ==
    \A p \in Procs :
        (calls[p].op = "report" /\ calls[p].pc = "done" /\ calls[p].res.status = "ok") =>
            calls[p].res.completeness =
                Cardinality({j \in 1..4 :
                    PointsOfBrain(ContentCollections[j], calls[p].brain_id) # {}})

\* the slug pattern as specified: 2 to 50 characters, the first a lowercase
\* letter, the others lowercase letters, digits, hyphens or underscores
IsSlug(vertical) ==
    /\ Len(Chars(vertical)) >= 2 /\ Len(Chars(vertical)) <= 50
    /\ Chars(vertical)[1] = "lower"
    /\ \A j \in 2..Len(Chars(vertical)) :
            Chars(vertical)[j] \in {"lower", "digit", "dash", "underscore"}

\* C14: a successful create_brain has stored its brain with status draft;
\* a create_brain call whose vertical is no slug of 2 to 50 characters, whose
\* name is not 3 to 100 or whose description is not 10 to 500 characters long
\* ends with an error, without an embedding call or a store write, and the
\* brains collection is as it was.
C14_CreateValidates ==
    \A p \in Procs :
        LET c == calls[p] IN
        c.op = "create" =>
            /\ (c.pc = "done" /\ c.res.status = "ok") =>
                    /\ RecordById(brains, c.res.brain_id).status = "draft"
                    /\ c.res.new_status = "draft"
            /\ (~IsSlug(c.vertical) \/ c.name_len < 3 \/ c.name_len > 100
                    \/ c.description_len < 10 \/ c.description_len > 500) =>
                    /\ c.pc = "done" /\ c.res.status = "error"
                    /\ c.nEmbed = 0 /\ c.nWrite = 0
                    /\ brains = pre[p].brains

\* the call in slot p has returned success
Succeeded(p) == calls[p].pc = "done" /\ calls[p].res.status = "ok"

\* C15: a successful create_brain returns an id no stored brain had and
\* leaves every stored brain record and all content as they were. In the
\* scenario, the first activation reports no deactivated brain; the second
\* archives the first brain and reports it as deactivated; the delete of the
\* first brain removes its record and exactly its 2 rules, and the second
\* brain is still active.
C15_SecondCreateIsDistinct ==
    LET c == calls[1]
        others == {brains[pt].id : pt \in DOMAIN brains} \ {c.brain_id}
    IN /\ (c.op = "create" /\ Succeeded(1)) =>
            /\ RecordById(pre[1].brains, c.res.brain_id) = NoData
            /\ \A pt \in DOMAIN pre[1].brains :
                    pt \in DOMAIN brains /\ brains[pt] = pre[1].brains[pt]
            /\ content = pre[1].content
       /\ (TracePos = 3 /\ c.op = "update" /\ Succeeded(1)) =>
            c.res.deactivated_brain_id = ""
       /\ (TracePos = 5 /\ c.op = "update" /\ Succeeded(1)) =>
            /\ Cardinality(others) = 1
            /\ \A first \in others :
                    /\ c.res.deactivated_brain_id = first
                    /\ RecordById(brains, first).status = "archived"
                    /\ Cardinality(PointsOfBrain("icp_rules", first)) = 2
            /\ RecordById(brains, c.brain_id).status = "active"
       /\ (TracePos = 6 /\ c.op = "delete" /\ Succeeded(1)) =>
            /\ RecordById(brains, c.brain_id) = NoData
            /\ PointsOfBrain("icp_rules", c.brain_id) = {}
            /\ c.res.deleted_content["icp_rules"] = 2
            /\ content["icp_rules"] = <<>>
            /\ Cardinality(others) = 1
            /\ \A second \in others : RecordById(brains, second).status = "active"

\* a brain that is stored and is not archived
StoredAndNotArchived(brain_id) ==
    \E pt \in BrainPointsById(brain_id) : brains[pt].status # "archived"

\* C34: every insight that is written belongs to a brain that is stored and
\* is not archived at that moment; add_insight for a brain_id that names no
\* brain, a deleted brain or an archived brain writes nothing.
C34_InsightsOnlyForStoredBrains ==
    [][\A pt \in DOMAIN content'["insights"] \ DOMAIN content["insights"] :
            StoredAndNotArchived(content'["insights"][pt].payload.brain_id)]_vars

\* C31: no brain holds two stored insights that are duplicates of each other
\* (similarity at or above the duplicate threshold), after any sequence of
\* add_insight calls and also when two add_insight calls with the same
\* content for the same brain run concurrently.
C31_NoDuplicateInsights ==
    \A pt, q \in DOMAIN content["insights"] :
        (/\ pt # q
         /\ content["insights"][pt].payload.brain_id = content["insights"][q].payload.brain_id)
        => Similarity(content["insights"][pt].payload.content,
                      content["insights"][q].payload.content) < DUPLICATE_THRESHOLD

\* the ids of the brains of a vertical that are active in a brains collection
ActiveIn(bs, vertical) ==
    {bs[pt].id : pt \in {x \in DOMAIN bs :
                            bs[x].vertical = vertical /\ bs[x].status = "active"}}

\* C32: when several brains of a vertical are active and one
\* update_brain_status(B, active) call has run alone and succeeded, B is the
\* only active brain of the vertical and every other brain of the vertical
\* that was active before is archived, however many there were.
C32_ActivationRepairs ==
    \A p \in Procs :
        (calls[p].op = "update" /\ calls[p].status = "active" /\ Succeeded(p))
        => /\ ActiveIn(brains, calls[p].vertical) = {calls[p].brain_id}
           /\ \A b \in ActiveIn(pre[p].brains, calls[p].vertical) \ {calls[p].brain_id} :
                RecordById(brains, b).status = "archived"

\* the content points of a brain in a store: per collection, the points whose
\* payload carries its brain_id, with what they hold
PointsScopedTo(store, b) ==
    [coll \in CollectionNames |->
        [pt \in {x \in DOMAIN store[coll] : store[coll][x].payload.brain_id = b} |->
            store[coll][pt]]]

\* the ids of the brains that are stored, or have content points, in the
\* store as it was when the call of slot p arrived or as it is now
BrainsSeen(p) ==
    {x.id : x \in {brains[pt] : pt \in DOMAIN brains}
                    \cup {pre[p].brains[pt] : pt \in DOMAIN pre[p].brains}}
    \cup UNION {{content[coll][pt].payload.brain_id : pt \in DOMAIN content[coll]}
                \cup {pre[p].content[coll][pt].payload.brain_id :
                        pt \in DOMAIN pre[p].content[coll]} : coll \in CollectionNames}

\* C33: lifecycle operations on one brain leave the others untouched.
\* update_brain_status changes only the status of the target and of brains
\* of its vertical that were active, and no content collection; delete_brain
\* and the seed calls for a brain A leave the record and every content point
\* of any other brain B as they were, so B's live stats stay the same.
C33_OtherBrainsUntouched ==
    \A p \in Procs :
        LET c == calls[p] IN
        /\ c.op = "update" =>
            /\ content = pre[p].content
            /\ DOMAIN brains = DOMAIN pre[p].brains
            /\ \A pt \in DOMAIN brains :
                /\ brains[pt] = [pre[p].brains[pt] EXCEPT !.status = brains[pt].status]
                /\ brains[pt] # pre[p].brains[pt] =>
                    \/ brains[pt].id = c.brain_id
                    \/ /\ brains[pt].vertical = RecordById(pre[p].brains, c.brain_id).vertical
                       /\ pre[p].brains[pt].status = "active"
        /\ c.op \in {"delete", "seed"} =>
            \A b \in BrainsSeen(p) \ {c.brain_id} :
                /\ RecordById(brains, b) = RecordById(pre[p].brains, b)
                /\ PointsScopedTo(content, b) = PointsScopedTo(pre[p].content, b)
                /\ PointCounts(content, b) = PointCounts(pre[p].content, b)

\* C35: an update_pipeline_stage call with force = TRUE, or on a record whose
\* current stage is unknown (no status on the entry, or a status id the
\* list's mapping does not hold), is never refused as an invalid transition;
\* it is refused for its stage only when the list's mapping lacks the stage;
\* and when it has succeeded the entry holds the status id the mapping gives
\* the requested stage, whatever the stage before was, and the result
\* records previous_stage, new_stage and forced = force.
C35_ForceOrUnknownSkipsValidation ==
    \A p \in Procs :
        LET c == tools[p]
            status_mapping == StatusMapping(attio.statuses)
        IN (c.op = "update_stage" /\ (c.force \/ StageBefore(p) = ""))
           => /\ c.res.error # "invalid_transition"
              /\ c.res.error = "stage_not_in_list" => c.stage \notin DOMAIN status_mapping
              /\ (c.pc = "done" /\ c.res.status = "ok")
                    => /\ c.stage \in PipelineStage \cap DOMAIN status_mapping
                       /\ attio.entries[EntryOf(p)] = status_mapping[c.stage]
                       /\ c.res.previous_stage = StageBefore(p)
                       /\ c.res.new_stage = c.stage
                       /\ c.res.forced = c.force

\* C35 witness: a forced move out of closed_won has been applied
C35_Witness ==
    \E p \in Procs :
        /\ tools[p].op = "update_stage" /\ tools[p].force
        /\ StageBefore(p) = "closed_won" /\ tools[p].stage = "new_reply"
        /\ tools[p].pc = "done" /\ tools[p].res.status = "ok"
        /\ tools[p].res.previous_stage = "closed_won"
        /\ attio.entries[EntryOf(p)] = "status_new"

\* the stages a record has been in along the successful calls of history h:
\* the stage before the first call, then the stage each call has set
StagesAlong(h) ==
    IF h = <<>> THEN <<>>
    ELSE <<h[1].previous_stage>> \o [i \in 1..Len(h) |-> h[i].new_stage]

Unforced(h) == \A i \in 1..Len(h) : ~h[i].forced

\* no stage twice, at most 5 stage changes, closed_won only out of proposal
FollowsStageGraph(h) ==
    /\ \A i, j \in 1..Len(StagesAlong(h)) :
            i # j => StagesAlong(h)[i] # StagesAlong(h)[j]
    /\ Len(h) <= 5
    /\ \A i \in 1..Len(h) :
            h[i].new_stage = "closed_won" => h[i].previous_stage = "proposal"

\* an unforced call that asks for closed_lost from a non-terminal stage is
\* not refused as an invalid transition, and when it has succeeded the entry
\* is in closed_lost
ClosedLostInOneStep ==
    \A p \in Procs :
        LET c == tools[p]
        IN (/\ c.op = "update_stage" /\ ~c.force /\ c.stage = "closed_lost"
            /\ StageBefore(p) \in PipelineStage \ {"closed_won", "closed_lost"})
           => /\ c.res.error # "invalid_transition"
              /\ (c.pc = "done" /\ c.res.status = "ok")
                    => CurrentStage(StatusMapping(attio.statuses),
                                    attio.entries[EntryOf(p)]) = "closed_lost"

\* C36, as stated: along any sequence of successful unforced
\* update_pipeline_stage calls on one record no stage occurs twice, there are
\* at most 5 stage changes, closed_won is entered out of proposal only, and
\* closed_lost is one step away from every non-terminal stage.
C36_StageGraphAlongAnyRun ==
    /\ \A e \in DOMAIN attio.history :
            Unforced(attio.history[e]) => FollowsStageGraph(attio.history[e])
    /\ ClosedLostInOneStep

\* C36, amended: along any sequence of successful unforced
\* update_pipeline_stage calls on one record whose current stage is known
\* when the sequence starts no stage occurs twice, there are at most 5 stage
\* changes, closed_won is entered out of proposal only, and closed_lost is
\* one step away from every non-terminal stage.
C36_StageGraphFromKnownStage ==
    /\ \A e \in DOMAIN attio.history :
            LET h == attio.history[e]
            IN (Unforced(h) /\ h # <<>> /\ h[1].previous_stage # "")
               => FollowsStageGraph(h)
    /\ ClosedLostInOneStep

\* C36 witness: five unforced calls have taken the record from new_reply
\* through every stage to closed_won
C36_Witness ==
    LET h == attio.history[<<DefaultListId, RecordInPipeline>>]
    IN /\ <<DefaultListId, RecordInPipeline>> \in DOMAIN attio.history
       /\ Unforced(h)
       /\ StagesAlong(h) = <<"new_reply", "qualifying", "meeting_scheduled",
                             "meeting_held", "proposal", "closed_won">>
       /\ attio.entries[<<DefaultListId, RecordInPipeline>>] = "status_won"

====
